---- MODULE Spec2Model ----
(***************************************************************************)
(* Model of the charging-point monitor, src/charging_point/ev_cp_monitor.py *)
(* (class EVCPMonitor): the start-up sequence of run(), the health-check    *)
(* loop against the engine, the controller listener's session events and   *)
(* the progress ticker threads.                                             *)
(***************************************************************************)
EXTENDS Integers, Sequences, FiniteSets, TLC

(***************************************************************************)
(* Bounds of the model.                                                    *)
(***************************************************************************)
\* health cycles run by the health-check loop
MaxCycles == 6
\* controller messages handled by the listener
MaxEvents == 3
\* seconds of session age the clock tells apart (older sessions read alike)
MaxElapsed == 18

(***************************************************************************)
(* Program constants.                                                      *)
(***************************************************************************)
failure_threshold == 3
\* "14 seconds = 100%": the divisor of the progress formula
total_duration == 14
\* "14% every 2 seconds": the reporting quantum of the progress ticker
progress_quantum == 14
\* time.sleep(2) at the end of each ticker iteration
tick_sleep == 2
\* max_retries of connect_to_engine and of connect_to_central
max_retries == 10
\* retry_delay (seconds) of connect_to_engine and of connect_to_central
retry_delay == 2

\* Whole seconds by which a ticker's time.sleep(2) may overrun: the scheduling
\* assumption under which the clock is modelled.
WakeLate == {0, 1}

Drivers == {"driver1", "driver2"}
NoDriver == "None"

\* What one health cycle can get back from the engine link: a decoded
\* HEALTH_OK, a decoded HEALTH_KO, a decoded message of another type, data that
\* does not decode, an empty read, a socket timeout, or an exception raised
\* by send/recv.
EngineReplies == {"HEALTH_OK", "HEALTH_KO", "OTHER", "INVALID", "EMPTY", "TIMEOUT", "ERROR"}
FailedReplies == {"HEALTH_KO", "INVALID", "EMPTY", "TIMEOUT", "ERROR"}

VARIABLES
    \* ---- EVCPMonitor fields
    running,               \* self.running
    engine_socket,         \* "None" | "unconnected" | "open" | "closed"
    central_socket,        \* "None" | "unconnected" | "open" | "broken" (peer or
                           \* network gone) | "closed"
    encryption_key,        \* self.encryption_key
    engine_healthy,        \* self.engine_healthy
    consecutive_failures,  \* self.consecutive_failures
    current_driver,        \* self.current_driver
    charging_active,       \* self.charging_active
    elapsed,               \* datetime.now() - self.charge_start_time in whole
                           \* seconds, -1 while charge_start_time is None
    charge_progress,       \* self.charge_progress
    last_progress_update,  \* self.last_progress_update
    charging_complete,     \* self.charging_complete
    \* ---- threads
    run_pc,                \* run(): the step the main thread is at
    health_pc,             \* health_check_loop: "idle" (not started) | "sleep" | "done"
    listener_pc,           \* _listen_central: "idle" (not started) | "recv" | "done"
    tickers,               \* _monitor_progress threads: id -> record
    \* ---- environment
    central_out,           \* send() calls made on the controller link, in order
    reports,               \* unplug banners printed by the listener, in order
    \* ---- history
    cycles,                \* health cycles run so far
    last_cycle,            \* the last health cycle: reply, state before, sends
    run_len,               \* failed cycles since the last HEALTH_OK reply
    run_healthy,           \* engine_healthy when that run began
    run_faults,            \* FAULT sends made during that run
    events,                \* controller messages handled so far
    last_msg,              \* type of the last controller message handled
    last_driver,           \* driver id it carried, for a DRIVER_START
    session_no,            \* DRIVER_START messages handled so far
    engine_attempts,       \* connect attempts made by connect_to_engine
    engine_slept,          \* seconds it slept between them
    engine_result,         \* what it returned: "none" | "True" | "False"
    central_attempts,      \* connect attempts made by connect_to_central
    central_slept,         \* seconds it slept between them
    auth_response,         \* what its recv() after AUTHENTICATE produced
    auth_result,           \* what it returned: "none" | "True" | "False"
    console,               \* the DENY reason it printed
    started,               \* stages of run() completed, in order
    \* ---- credentials
    cache_file,            \* data/{cp_id}_credentials.json: "absent" | "valid" |
                           \* "unreadable"
    credentials,           \* what _fetch_credentials_from_registry returned:
                           \* "None" | "cached" | "fresh"
    registry_calls,        \* POST /register calls made
    resolution,            \* how the credentials were resolved
    \* ---- controller byte stream
    pushed,                \* the messages the controller pushes after start-up
    stream,                \* the bytes it sends for them
    received,              \* how many of them the listener's recv() calls returned
    carried,               \* whether the last recv() found bytes left in `buffer`
    decoded,               \* how many frames the decode loop after the last recv() took
    buffer,                \* _listen_central's local `buffer`
    dispatched,            \* field lists the listener decoded and dispatched
    \* ---- codec
    codec_msg,             \* a message (its field list) handed to the codec
    codec_frame,           \* the frame encode made of it
    codec_out,             \* what decode and parse_message made of the frame
    \* ---- the engine link as a byte stream, and the neighbouring services
    engine_link,           \* replies waiting unread on the engine socket, checks sent,
                           \* and which check the last evaluated reply answered
    weather,               \* WeatherService: current_alerts, and what each poll did
    wizard                 \* CPManagerTerminal: state, temp_data, and the last message

health_vars == <<engine_healthy, consecutive_failures>>
session_vars == <<current_driver, charging_active, elapsed,
                  charge_progress, last_progress_update, charging_complete>>
link_vars == <<running, engine_socket, central_socket>>
thread_vars == <<health_pc, listener_pc, tickers>>
health_hist == <<cycles, last_cycle, run_len, run_healthy, run_faults, central_out>>
session_hist == <<events, last_msg, last_driver, session_no, reports>>
cred_vars == <<cache_file, credentials, registry_calls, resolution>>
startup_vars == <<run_pc, encryption_key, engine_attempts, engine_slept, engine_result,
                  central_attempts, central_slept, auth_response, auth_result,
                  console, started, cred_vars>>
side_vars == <<engine_link, weather, wizard>>
frame_vars == <<pushed, stream, received, carried, decoded, buffer, dispatched,
               codec_msg, codec_frame, codec_out, side_vars>>
vars == <<health_vars, session_vars, link_vars, thread_vars, health_hist, session_hist,
          startup_vars, frame_vars>>

\* Every DRIVER_START starts a thread, so no more than MaxEvents ever live.
TickerIds == 1..MaxEvents
\* pc: "check" (asleep, then the top of the loop), "update" (between the two
\* locked blocks), "dead"; wake: seconds left to sleep (negative: overdue);
\* progress: the value computed for the pending update.
DeadTicker == [pc |-> "dead", wake |-> 0, progress |-> 0]

NoCycle == [reply |-> "NONE", healthy |-> TRUE, failures |-> 0, sent |-> <<>>]

NoKey == "None"
Absent == "absent"
NoResponse == [type |-> "NONE", arg |-> Absent]
NoOutput == [status |-> "NONE", fields |-> <<>>]
NoResolution == [cache |-> "NONE", response |-> "NONE", saved |-> FALSE]

\* Nothing unread on the engine socket and no HEALTH_CHECK sent yet.
NoEvaluation == [cycle |-> 0, reply_to |-> 0]
NoEngineLink == [inbox |-> <<>>, sent |-> 0, evaluated |-> NoEvaluation]

\* Charging points the weather service is told about.
CPs == {"CP-001", "CP-002"}
\* get_temperature_by_coords returned (None, None)
NoReading == [ok |-> FALSE, temp |-> 0]
NoAttempt == [polled |-> FALSE, reading |-> NoReading, temp |-> 0, alerted |-> FALSE,
              kind |-> "none", status |-> "NONE"]
\* WeatherService.__init__: current_alerts = {} (a missing key reads as False).
NoWeather == [current_alerts |-> [cp \in CPs |-> FALSE],
              acked |-> [cp \in CPs |-> <<>>],
              polls |-> 0,
              last |-> [cp \in CPs |-> NoAttempt]]

\* CPManagerTerminal.__init__: state = 'MENU', temp_data = {}.
Unset == <<"unset">>
NoTempData == [cpId |-> Unset, lat |-> Unset, lon |-> Unset, price |-> Unset]
NoMessage == [message |-> <<>>, state |-> "NONE", result |-> "NONE"]
NoWizard == [state |-> "MENU", temp_data |-> NoTempData, messages |-> 0, last |-> NoMessage]

NoSide ==
    /\ engine_link = NoEngineLink
    /\ weather = NoWeather
    /\ wizard = NoWizard

\* The credentials came from the cache file.
CachedCredentials ==
    /\ cache_file = "valid"
    /\ credentials = "cached"
    /\ registry_calls = 0
    /\ resolution = [cache |-> "valid", response |-> "NONE", saved |-> FALSE]

\* No controller traffic and no codec call.
NoFrames ==
    /\ pushed = <<>>
    /\ stream = <<>>
    /\ received = 0
    /\ carried = FALSE
    /\ decoded = 0
    /\ NoSide
    /\ buffer = <<>>
    /\ dispatched = <<>>
    /\ codec_msg = <<>>
    /\ codec_frame = <<>>
    /\ codec_out = NoOutput

\* The monitor in its menu, both links up and both threads running: run() has
\* gone through; the controller's AUTHENTICATED carried no key field.
Init ==
    /\ run_pc = "menu"
    /\ encryption_key = NoKey
    /\ engine_attempts = 0
    /\ engine_slept = 0
    /\ engine_result = "True"
    /\ central_attempts = 0
    /\ central_slept = 0
    /\ auth_response = NoResponse
    /\ auth_result = "True"
    /\ console = "None"
    /\ started = <<>>
    /\ CachedCredentials
    /\ NoFrames
    /\ running = TRUE
    /\ engine_socket = "open"
    /\ central_socket = "open"
    /\ engine_healthy = TRUE
    /\ consecutive_failures = 0
    /\ current_driver = NoDriver
    /\ charging_active = FALSE
    /\ elapsed = -1
    /\ charge_progress = 0
    /\ last_progress_update = 0
    /\ charging_complete = FALSE
    /\ health_pc = "sleep"
    /\ listener_pc = "recv"
    /\ tickers = [t \in TickerIds |-> DeadTicker]
    /\ central_out = <<>>
    /\ reports = <<>>
    /\ cycles = 0
    /\ last_cycle = NoCycle
    /\ run_len = 0
    /\ run_healthy = TRUE
    /\ run_faults = 0
    /\ events = 0
    /\ last_msg = "NONE"
    /\ last_driver = NoDriver
    /\ session_no = 0

(***************************************************************************)
(* Health monitor.                                                          *)
(***************************************************************************)
\* central_socket.send(msg): the call is made; it raises unless the link is open.
\* Each call is recorded with whether the caller holds self.lock at that point:
\* the RECOVERY send of health_check_loop and the FAULT send of
\* _handle_engine_fault sit inside `with self.lock`, the sends of
\* connect_to_central do not.
LockedSends == {"RECOVERY", "FAULT"}
Send(type, link) ==
    [type |-> type, ok |-> (link = "open"), locked |-> (type \in LockedSends)]

\* Mutant: the threshold comparison is off by one.
handle_engine_fault_early(healthy, failures, link) ==
    LET f == failures + 1 IN
    IF f >= failure_threshold - 1 /\ healthy
    THEN [healthy |-> FALSE, failures |-> f, sent |-> <<Send("FAULT", link)>>]
    ELSE [healthy |-> healthy, failures |-> f, sent |-> <<>>]

\* Mutant: the FAULT is sent without the `if self.engine_healthy` guard.
handle_engine_fault_unguarded(healthy, failures, link) ==
    LET f == failures + 1 IN
    IF f >= failure_threshold
    THEN [healthy |-> FALSE, failures |-> f, sent |-> <<Send("FAULT", link)>>]
    ELSE [healthy |-> healthy, failures |-> f, sent |-> <<>>]

\* _handle_engine_fault: count the failure; on reaching the threshold while
\* healthy, turn faulty and send FAULT (a failing send is caught and logged).
handle_engine_fault(healthy, failures, link) ==
    LET f == failures + 1 IN
    IF f >= failure_threshold /\ healthy
    THEN [healthy |-> FALSE, failures |-> f, sent |-> <<Send("FAULT", link)>>]
    ELSE [healthy |-> healthy, failures |-> f, sent |-> <<>>]

\* Mutant: an empty read (engine closed the connection) is not counted.
health_cycle_empty_ignored(reply, healthy, failures, link) ==
    CASE reply = "HEALTH_OK" /\ ~healthy /\ link # "open" ->
            LET r == handle_engine_fault(healthy, failures, link)
            IN  [r EXCEPT !.sent = <<Send("RECOVERY", link)>> \o r.sent]
      [] reply = "HEALTH_OK" /\ ~healthy /\ link = "open" ->
            [healthy |-> TRUE, failures |-> 0, sent |-> <<Send("RECOVERY", link)>>]
      [] reply = "HEALTH_OK" /\ healthy ->
            [healthy |-> TRUE, failures |-> 0, sent |-> <<>>]
      [] reply \in {"OTHER", "EMPTY"} ->
            [healthy |-> healthy, failures |-> failures, sent |-> <<>>]
      [] OTHER -> handle_engine_fault(healthy, failures, link)

\* Mutant: every HEALTH_OK sends RECOVERY, without the `if not
\* self.engine_healthy` test.
health_cycle_recovery_always(reply, healthy, failures, link) ==
    CASE reply = "HEALTH_OK" /\ link # "open" ->
            LET r == handle_engine_fault(healthy, failures, link)
            IN  [r EXCEPT !.sent = <<Send("RECOVERY", link)>> \o r.sent]
      [] reply = "HEALTH_OK" /\ link = "open" ->
            [healthy |-> TRUE, failures |-> 0, sent |-> <<Send("RECOVERY", link)>>]
      [] reply = "OTHER" ->
            [healthy |-> healthy, failures |-> failures, sent |-> <<>>]
      [] OTHER -> handle_engine_fault(healthy, failures, link)

\* Mutant: the counter is reset before the RECOVERY send instead of after it.
health_cycle_reset_first(reply, healthy, failures, link) ==
    CASE reply = "HEALTH_OK" /\ ~healthy /\ link # "open" ->
            LET r == handle_engine_fault(healthy, 0, link)
            IN  [r EXCEPT !.sent = <<Send("RECOVERY", link)>> \o r.sent]
      [] reply = "HEALTH_OK" /\ ~healthy /\ link = "open" ->
            [healthy |-> TRUE, failures |-> 0, sent |-> <<Send("RECOVERY", link)>>]
      [] reply = "HEALTH_OK" /\ healthy ->
            [healthy |-> TRUE, failures |-> 0, sent |-> <<>>]
      [] reply = "OTHER" ->
            [healthy |-> healthy, failures |-> failures, sent |-> <<>>]
      [] OTHER -> handle_engine_fault(healthy, failures, link)

\* One iteration of health_check_loop after the sleep, for each reply.
\* HEALTH_OK while faulty sends RECOVERY inside the lock before the two
\* assignments; when that send raises, the assignments are skipped and the
\* outer `except Exception` calls _handle_engine_fault.  A decoded reply that
\* is neither HEALTH_OK nor HEALTH_KO matches no branch.
health_cycle(reply, healthy, failures, link) ==
    CASE reply = "HEALTH_OK" /\ ~healthy /\ link # "open" ->
            LET r == handle_engine_fault(healthy, failures, link)
            IN  [r EXCEPT !.sent = <<Send("RECOVERY", link)>> \o r.sent]
      [] reply = "HEALTH_OK" /\ ~healthy /\ link = "open" ->
            [healthy |-> TRUE, failures |-> 0, sent |-> <<Send("RECOVERY", link)>>]
      [] reply = "HEALTH_OK" /\ healthy ->
            [healthy |-> TRUE, failures |-> 0, sent |-> <<>>]
      [] reply = "OTHER" ->
            [healthy |-> healthy, failures |-> failures, sent |-> <<>>]
      [] OTHER -> handle_engine_fault(healthy, failures, link)

NumSent(s, type) == Cardinality({i \in 1..Len(s) : s[i].type = type})

\* health_check_loop: the cycle that follows one sleep.  On a closed engine
\* socket the HEALTH_CHECK send raises, which is the "ERROR" outcome.  The
\* `while self.running` test that follows the cycle ends the thread.
HealthCheck ==
    /\ health_pc = "sleep"
    /\ cycles < MaxCycles
    /\ \E reply \in (IF engine_socket = "open" THEN EngineReplies ELSE {"ERROR"}) :
         LET r == health_cycle(reply, engine_healthy, consecutive_failures, central_socket)
             nf == NumSent(r.sent, "FAULT")
         IN  /\ engine_healthy' = r.healthy
             /\ consecutive_failures' = r.failures
             /\ central_out' = central_out \o r.sent
             /\ last_cycle' = [reply |-> reply, healthy |-> engine_healthy,
                               failures |-> consecutive_failures, sent |-> r.sent]
             /\ IF reply = "HEALTH_OK"
                THEN /\ run_len' = 0
                     /\ run_healthy' = r.healthy
                     /\ run_faults' = 0
                ELSE /\ run_len' = IF reply \in FailedReplies THEN run_len + 1 ELSE run_len
                     /\ run_healthy' = run_healthy
                     /\ run_faults' = run_faults + nf
    /\ cycles' = cycles + 1
    /\ health_pc' = IF running THEN "sleep" ELSE "done"
    /\ UNCHANGED startup_vars
    /\ UNCHANGED frame_vars
    /\ UNCHANGED <<session_vars, link_vars, listener_pc, tickers, session_hist>>

\* The controller link fails under the monitor (peer closed, network lost).
CentralLost ==
    /\ central_socket = "open"
    /\ central_socket' = "broken"
    /\ UNCHANGED startup_vars
    /\ UNCHANGED frame_vars
    /\ UNCHANGED <<running, engine_socket, health_vars, session_vars, thread_vars,
                   health_hist, session_hist>>

\* display_menu "quit" and the finally-block of run(): the flag is cleared and
\* both sockets are closed.
Quit ==
    /\ run_pc = "menu"
    /\ running
    /\ running' = FALSE
    /\ engine_socket' = "closed"
    /\ central_socket' = "closed"
    /\ UNCHANGED startup_vars
    /\ UNCHANGED frame_vars
    /\ UNCHANGED <<health_vars, session_vars, thread_vars, health_hist, session_hist>>

NextHealth == HealthCheck \/ CentralLost \/ Quit

SpecHealth == Init /\ [][NextHealth]_vars

(***************************************************************************)
(* Charging session: the controller listener and the progress tickers.     *)
(***************************************************************************)
Min(a, b) == IF a < b THEN a ELSE b

\* progress = min(int((elapsed / 14.0) * 100), 100), for whole seconds elapsed
Progress(secs) == Min((secs * 100) \div total_duration, 100)

Alive(t) == tickers[t].pc # "dead"
FreeTickers == {t \in TickerIds : ~Alive(t)}
Lowest(S) == CHOOSE t \in S : \A u \in S : t <= u

Handled(type) ==
    /\ events' = events + 1
    /\ last_msg' = type

\* Mutant: DRIVER_START leaves the completion flag and the last recorded tick
\* of the session it overwrites.
DriverStart_keep_flags ==
    /\ listener_pc = "recv"
    /\ events < MaxEvents
    /\ \E d \in Drivers :
         /\ current_driver' = d
         /\ charging_active' = TRUE
         /\ elapsed' = 0
         /\ charge_progress' = 0
         /\ last_driver' = d
    /\ tickers' = [tickers EXCEPT ![Lowest(FreeTickers)] =
                      [pc |-> "check", wake |-> 0, progress |-> 0]]
    /\ Handled("DRIVER_START")
    /\ session_no' = session_no + 1
    /\ UNCHANGED startup_vars
    /\ UNCHANGED frame_vars
    /\ UNCHANGED <<last_progress_update, charging_complete, health_vars, link_vars,
                   health_pc, listener_pc, health_hist, reports>>

\* _listen_central, DRIVER_START: the session record is overwritten under the
\* lock and a new _monitor_progress thread is started.
DriverStart ==
    /\ listener_pc = "recv"
    /\ events < MaxEvents
    /\ \E d \in Drivers :
         /\ current_driver' = d
         /\ charging_active' = TRUE
         /\ elapsed' = 0
         /\ charge_progress' = 0
         /\ last_progress_update' = 0
         /\ charging_complete' = FALSE
         /\ last_driver' = d
    /\ tickers' = [tickers EXCEPT ![Lowest(FreeTickers)] =
                      [pc |-> "check", wake |-> 0, progress |-> 0]]
    /\ Handled("DRIVER_START")
    /\ session_no' = session_no + 1
    /\ UNCHANGED startup_vars
    /\ UNCHANGED frame_vars
    /\ UNCHANGED <<health_vars, link_vars, health_pc, listener_pc, health_hist,
                   reports>>

\* _listen_central, CHARGING_COMPLETE
ChargingComplete ==
    /\ listener_pc = "recv"
    /\ events < MaxEvents
    /\ charging_complete' = TRUE
    /\ charge_progress' = 100
    /\ Handled("CHARGING_COMPLETE")
    /\ last_driver' = NoDriver
    /\ UNCHANGED startup_vars
    /\ UNCHANGED frame_vars
    /\ UNCHANGED <<current_driver, charging_active, elapsed,
                   last_progress_update, health_vars, link_vars, thread_vars,
                   health_hist, session_no, reports>>

\* The banner the DRIVER_STOP branch prints for a session that was charging.
Outcome(final_progress) == IF final_progress >= 100 THEN "full completion" ELSE "early disconnect"

\* Mutant: DRIVER_STOP also clears the health monitor's failure counter.
DriverStop_reset_health ==
    /\ listener_pc = "recv"
    /\ events < MaxEvents
    /\ LET was_charging == charging_active \/ charging_complete
           final_progress == charge_progress
       IN  reports' = IF was_charging
                      THEN Append(reports, [session |-> session_no,
                                            outcome |-> Outcome(final_progress)])
                      ELSE reports
    /\ current_driver' = NoDriver
    /\ charging_active' = FALSE
    /\ charging_complete' = FALSE
    /\ charge_progress' = 0
    /\ consecutive_failures' = 0
    /\ Handled("DRIVER_STOP")
    /\ last_driver' = NoDriver
    /\ UNCHANGED startup_vars
    /\ UNCHANGED frame_vars
    /\ UNCHANGED <<elapsed, last_progress_update, engine_healthy, link_vars,
                   thread_vars, health_hist, session_no>>

\* _listen_central, DRIVER_STOP: snapshot and reset under the lock, then print
\* the outcome if the session was active or complete.
DriverStop ==
    /\ listener_pc = "recv"
    /\ events < MaxEvents
    /\ LET was_charging == charging_active \/ charging_complete
           final_progress == charge_progress
       IN  reports' = IF was_charging
                      THEN Append(reports, [session |-> session_no,
                                            outcome |-> Outcome(final_progress)])
                      ELSE reports
    /\ current_driver' = NoDriver
    /\ charging_active' = FALSE
    /\ charging_complete' = FALSE
    /\ charge_progress' = 0
    /\ Handled("DRIVER_STOP")
    /\ last_driver' = NoDriver
    /\ UNCHANGED startup_vars
    /\ UNCHANGED frame_vars
    /\ UNCHANGED <<elapsed, last_progress_update, health_vars, link_vars,
                   thread_vars, health_hist, session_no>>

\* _monitor_progress, top of the loop to the elapsed-time computation: the
\* `while self.running` test, the first locked block (the status snapshot) and,
\* for an active session, the progress computed from the snapshot start time.
TickerCheck(t) ==
    /\ tickers[t].pc = "check"
    /\ tickers[t].wake <= 0
    /\ LET should_stop == ~charging_active /\ ~charging_complete
           is_complete == charging_complete
           is_active == charging_active
           has_start_time == elapsed # -1
       IN  tickers' = [tickers EXCEPT ![t] =
               IF ~running \/ should_stop THEN DeadTicker
               ELSE IF is_complete THEN [pc |-> "check", wake |-> tick_sleep, progress |-> 0]
               ELSE IF is_active /\ has_start_time
                    THEN [pc |-> "update", wake |-> 0, progress |-> Progress(elapsed)]
               ELSE [pc |-> "check", wake |-> tick_sleep, progress |-> 0]]
    /\ UNCHANGED startup_vars
    /\ UNCHANGED frame_vars
    /\ UNCHANGED <<health_vars, session_vars, link_vars, health_pc, listener_pc,
                   health_hist, session_hist>>

\* _monitor_progress, second locked block: the tick is recorded only when it
\* is at least one quantum past the last recorded one (progress -1: no write).
monitor_progress_update(progress, last, complete) ==
    IF progress >= last + progress_quantum
    THEN [last |-> progress, progress |-> progress, complete |-> (complete \/ progress >= 100)]
    ELSE [last |-> last, progress |-> -1, complete |-> complete]

\* _monitor_progress, second locked block and the sleep that follows it.
TickerUpdate(t) ==
    /\ tickers[t].pc = "update"
    /\ LET r == monitor_progress_update(tickers[t].progress, last_progress_update,
                                        charging_complete)
       IN  /\ last_progress_update' = r.last
           /\ charge_progress' = IF r.progress = -1 THEN charge_progress ELSE r.progress
           /\ charging_complete' = r.complete
    /\ tickers' = [tickers EXCEPT ![t] =
                      [pc |-> "check", wake |-> tick_sleep, progress |-> 0]]
    /\ UNCHANGED startup_vars
    /\ UNCHANGED frame_vars
    /\ UNCHANGED <<current_driver, charging_active, elapsed, health_vars,
                   link_vars, health_pc, listener_pc, health_hist, session_hist>>

\* A second of wall-clock time passes: the session ages and every sleep gets
\* a second shorter.  A sleeping ticker wakes late by a time in WakeLate, and
\* a ticker between its two locked blocks gets there within the second.
\* Session ages of MaxElapsed seconds and more are not told apart.
Advance ==
    /\ \A t \in TickerIds :
         /\ tickers[t].pc = "check" =>
                (tickers[t].wake > 0 \/ (1 - tickers[t].wake) \in WakeLate)
         /\ tickers[t].pc # "update"
    /\ \/ \E t \in TickerIds : Alive(t)
       \/ elapsed \in 0..(MaxElapsed - 1)
    /\ elapsed' = IF elapsed = -1 THEN -1 ELSE Min(elapsed + 1, MaxElapsed)
    /\ tickers' = [t \in TickerIds |->
                      IF tickers[t].pc = "check"
                      THEN [tickers[t] EXCEPT !.wake = tickers[t].wake - 1]
                      ELSE tickers[t]]
    /\ UNCHANGED startup_vars
    /\ UNCHANGED frame_vars
    /\ UNCHANGED <<current_driver, charging_active, charge_progress,
                   last_progress_update, charging_complete, health_vars, link_vars,
                   health_pc, listener_pc, health_hist, session_hist>>

NextSession ==
    \/ DriverStart
    \/ ChargingComplete
    \/ DriverStop
    \/ \E t \in TickerIds : TickerCheck(t)
    \/ \E t \in TickerIds : TickerUpdate(t)
    \/ Advance

SpecSession == Init /\ [][NextSession]_vars

(***************************************************************************)
(* Health monitor: properties.  "Sent" means that the monitor made the     *)
(* send call on the controller link; central_out records each call with    *)
(* its outcome.                                                             *)
(***************************************************************************)
\* The send calls made since the monitor last turned healthy (a RECOVERY
\* send that succeeded), i.e. in the current fault episode if there is one.
RECURSIVE EpisodeSends(_)
EpisodeSends(s) ==
    IF s = <<>> THEN <<>>
    ELSE IF s[Len(s)].type = "RECOVERY" /\ s[Len(s)].ok THEN <<>>
    ELSE Append(EpisodeSends(SubSeq(s, 1, Len(s) - 1)), s[Len(s)])

CycleRan == last_cycle.reply # "NONE"

\* C1: health hysteresis.  A run of failed cycles (HEALTH_KO, timeout, empty
\* read, undecodable reply, socket error) that began HEALTHY and counts fewer
\* than 3 failures since the last HEALTH_OK has sent no FAULT and the monitor
\* is still HEALTHY; and a HEALTH_OK received while HEALTHY leaves the monitor
\* HEALTHY with consecutive_failures = 0 and sends nothing.
C1_Hysteresis ==
    /\ (run_healthy /\ run_len < 3) => (engine_healthy /\ run_faults = 0)
    /\ (last_cycle.reply = "HEALTH_OK" /\ last_cycle.healthy) =>
           (engine_healthy /\ consecutive_failures = 0 /\ last_cycle.sent = <<>>)

\* Two failed cycles and then a HEALTH_OK have happened, with no FAULT sent.
C1_Witness ==
    /\ last_cycle.reply = "HEALTH_OK"
    /\ last_cycle.healthy
    /\ last_cycle.failures = 2
    /\ engine_healthy
    /\ consecutive_failures = 0
    /\ central_out = <<>>

\* C2: exactly one FAULT per fault episode.  While HEALTHY the counter is
\* below the threshold and no FAULT has been sent since the monitor last
\* turned healthy; while FAULTY exactly one FAULT has been sent in the
\* episode, and a cycle that starts FAULTY sends no FAULT.
C2_OneFaultPerEpisode ==
    /\ engine_healthy =>
           (consecutive_failures < 3 /\ NumSent(EpisodeSends(central_out), "FAULT") = 0)
    /\ ~engine_healthy => NumSent(EpisodeSends(central_out), "FAULT") = 1
    /\ (CycleRan /\ ~last_cycle.healthy) => NumSent(last_cycle.sent, "FAULT") = 0

\* The monitor is FAULTY, two more failures followed the one that crossed
\* the threshold, and still one FAULT was sent.
C2_Witness ==
    /\ ~engine_healthy
    /\ consecutive_failures >= 5
    /\ last_cycle.reply \in FailedReplies
    /\ NumSent(central_out, "FAULT") = 1

\* C3 (as claimed): a RECOVERY is sent only in a cycle that takes the monitor
\* from FAULTY to HEALTHY, exactly once in each such cycle, and never in a
\* cycle that starts HEALTHY.
C3_RecoveryOnlyOnTransition ==
    /\ (CycleRan /\ NumSent(last_cycle.sent, "RECOVERY") > 0) =>
           (~last_cycle.healthy /\ engine_healthy)
    /\ (CycleRan /\ ~last_cycle.healthy /\ engine_healthy) =>
           NumSent(last_cycle.sent, "RECOVERY") = 1
    /\ (CycleRan /\ last_cycle.healthy) => NumSent(last_cycle.sent, "RECOVERY") = 0

\* C4 (as claimed): at the end of every cycle in which the engine replied
\* HEALTH_OK, consecutive_failures = 0 and engine_healthy = true, whatever the
\* state of the controller link.
C4_SuccessResets ==
    last_cycle.reply = "HEALTH_OK" => (engine_healthy /\ consecutive_failures = 0)

\* C5: health-state invariant.  engine_healthy = false implies
\* consecutive_failures >= failure_threshold (3); before the first cycle the
\* monitor is HEALTHY with consecutive_failures = 0.
C5_FaultyImpliesThreshold ==
    /\ ~engine_healthy => consecutive_failures >= 3
    /\ cycles = 0 => (engine_healthy /\ consecutive_failures = 0)

\* The third failure in a row has just turned the monitor FAULTY.
C5_Witness ==
    /\ ~engine_healthy
    /\ last_cycle.healthy
    /\ consecutive_failures = 3

(***************************************************************************)
(* Charging session: properties.                                           *)
(***************************************************************************)
\* The step just taken is the listener handling a DRIVER_STOP.
StopHandled == events' = events + 1 /\ last_msg' = "DRIVER_STOP"

SessionIdle ==
    /\ current_driver = NoDriver
    /\ ~charging_active
    /\ ~charging_complete
    /\ charge_progress = 0

\* C6 (as claimed): completion by the clock.  With DRIVER_START the last
\* controller message handled and no shutdown, every progress tick due after
\* 14 s of session time has run once the session is 17 s old (14 s, a 2 s
\* sleep and the latest wake-up), and then charge_progress = 100 and
\* charging_complete = true.
C6_CompletesByClock ==
    (last_msg = "DRIVER_START" /\ running /\ elapsed >= 17) =>
        (charge_progress = 100 /\ charging_complete)

\* C7 (as claimed): whenever charging_complete is true, charge_progress = 100.
C7_CompleteMeansFull == charging_complete => charge_progress = 100

\* C8 (as claimed): a DRIVER_STOP handled for a session that is active or
\* complete reports exactly one outcome, "full completion" if charge_progress
\* >= 100 at that moment and "early disconnect" otherwise, and no outcome was
\* reported for that session before; any other DRIVER_STOP reports nothing.
C8_OneOutcomePerSession ==
    [][StopHandled =>
          IF charging_active \/ charging_complete
          THEN /\ reports' = Append(reports,
                       [session |-> session_no,
                        outcome |-> IF charge_progress >= 100 THEN "full completion"
                                                              ELSE "early disconnect"])
               /\ \A i \in 1..Len(reports) : reports[i].session # session_no
          ELSE reports' = reports]_vars

\* C9 (as claimed): after DRIVER_STOP is handled the session is idle
\* (current_driver = none, charging_active = false, charging_complete = false,
\* charge_progress = 0) and stays so while no further controller message is
\* handled, whatever the progress tickers do.
C9_StopResetsToIdle == last_msg = "DRIVER_STOP" => SessionIdle

\* C10 (as claimed, in its particular case): a DRIVER_STOP that is handled
\* right after another DRIVER_STOP, with no controller message in between,
\* finds no session and reports nothing.
C10_StopIdempotent ==
    [][(StopHandled /\ last_msg = "DRIVER_STOP") => reports' = reports]_vars

(***************************************************************************)
(* Session start.                                                           *)
(***************************************************************************)
StartHandled == events' = events + 1 /\ last_msg' = "DRIVER_START"
LiveTickers == {t \in TickerIds : Alive(t)}

\* C11: the step that handles DRIVER_START(d) leaves, whatever the session
\* was before it, current_driver = d, charging_active = true,
\* charging_complete = false, charge_progress = 0, last_progress_update = 0
\* and a fresh session clock, and starts exactly one more progress ticker.
\* (The session is one set of fields, so there is one record per monitor.)
C11_StartOverwrites ==
    [][StartHandled =>
          /\ last_driver' \in Drivers
          /\ current_driver' = last_driver'
          /\ charging_active'
          /\ ~charging_complete'
          /\ charge_progress' = 0
          /\ last_progress_update' = 0
          /\ elapsed' = 0
          /\ \E t \in TickerIds \ LiveTickers :
                /\ LiveTickers' = LiveTickers \cup {t}
                /\ tickers'[t].pc = "check"]_vars

\* A second DRIVER_START has just been handled, for another driver, while
\* the ticker of the session it overwrote is still alive.
C11_Witness ==
    /\ last_msg = "DRIVER_START"
    /\ session_no = 2
    /\ current_driver = "driver2"
    /\ Cardinality(LiveTickers) = 2
    /\ ~charging_complete
    /\ last_progress_update = 0
    /\ \E t \in TickerIds : tickers[t].pc = "check" /\ tickers[t].wake > 0

(***************************************************************************)
(* Start-up: run(), connect_to_engine and connect_to_central.               *)
(***************************************************************************)
cp_id == "CP-001"
Keys == {"k1", "k2"}
Reasons == {"BAD_PASSWORD", "UNKNOWN_CP"}

\* What the recv() after AUTHENTICATE can produce: an AUTHENTICATED frame with
\* or without a third field, a DENY frame with or without a third field, a
\* frame of another type, data that does not decode, an empty read (the peer
\* closed), the 10 s socket timeout, or another exception.
AuthResponses ==
    [type : {"AUTHENTICATED"}, arg : Keys \cup {Absent}]
        \cup [type : {"DENY"}, arg : Reasons \cup {Absent}]
        \cup [type : {"OTHER", "INVALID", "EMPTY", "TIMEOUT", "ERROR"}, arg : {Absent}]

\* The state in which run() is entered.
InitStartup ==
    /\ running = TRUE
    /\ engine_socket = "None"
    /\ central_socket = "None"
    /\ encryption_key = NoKey
    /\ engine_healthy = TRUE
    /\ consecutive_failures = 0
    /\ current_driver = NoDriver
    /\ charging_active = FALSE
    /\ elapsed = -1
    /\ charge_progress = 0
    /\ last_progress_update = 0
    /\ charging_complete = FALSE
    /\ run_pc = "connect_engine"
    /\ health_pc = "idle"
    /\ listener_pc = "idle"
    /\ tickers = [t \in TickerIds |-> DeadTicker]
    /\ central_out = <<>>
    /\ reports = <<>>
    /\ cycles = 0
    /\ last_cycle = NoCycle
    /\ run_len = 0
    /\ run_healthy = TRUE
    /\ run_faults = 0
    /\ events = 0
    /\ last_msg = "NONE"
    /\ last_driver = NoDriver
    /\ session_no = 0
    /\ engine_attempts = 0
    /\ engine_slept = 0
    /\ engine_result = "none"
    /\ central_attempts = 0
    /\ central_slept = 0
    /\ auth_response = NoResponse
    /\ auth_result = "none"
    /\ console = "None"
    /\ started = <<>>
    /\ cache_file \in {"absent", "valid", "unreadable"}
    /\ credentials = "None"
    /\ registry_calls = 0
    /\ resolution = NoResolution
    /\ NoFrames

\* Mutant: the retry loop gives up one attempt early.
connect_retry_short(attempt, ok) ==
    IF ok THEN "connected"
    ELSE IF attempt < max_retries - 2 THEN "retry" ELSE "failed"

\* One pass of `for attempt in range(max_retries)`: a connect that succeeds
\* ends the loop; one that raises is followed by time.sleep(retry_delay) and
\* the next pass, except on the last pass, where the function gives up.
connect_retry(attempt, ok) ==
    IF ok THEN "connected"
    ELSE IF attempt < max_retries - 1 THEN "retry" ELSE "failed"

\* Mutant: run() goes on after a failed connect.
run_after_connect_anyway(ok, next) == next

\* run(): `if not self.connect_to_...(): return`
run_after_connect(ok, next) == IF ok THEN next ELSE "aborted"

\* connect_to_engine: one pass of its retry loop, and the test run() makes
\* on its return value.
ConnectEngine ==
    /\ run_pc = "connect_engine"
    /\ engine_attempts < max_retries
    /\ \E ok \in BOOLEAN :
         LET r == connect_retry(engine_attempts, ok)
         IN  /\ engine_attempts' = engine_attempts + 1
             /\ engine_slept' = engine_slept + (IF r = "retry" THEN retry_delay ELSE 0)
             /\ engine_socket' = IF r = "connected" THEN "open" ELSE "unconnected"
             /\ engine_result' = CASE r = "connected" -> "True"
                                   [] r = "failed" -> "False"
                                   [] OTHER -> "none"
             /\ run_pc' = IF r = "retry" THEN "connect_engine"
                          ELSE run_after_connect(r = "connected", "credentials")
             /\ started' = IF r = "connected" THEN Append(started, "engine") ELSE started
    /\ UNCHANGED cred_vars
    /\ UNCHANGED frame_vars
    /\ UNCHANGED <<health_vars, session_vars, running, central_socket, thread_vars,
                   health_hist, session_hist, encryption_key, central_attempts,
                   central_slept, auth_response, auth_result, console>>

\* What the POST to the registry can come to: 201 with fresh credentials, 409
\* (already registered), another status, or an exception (no connection,
\* timeout, a body without the credentials).
RegistryResponses == {"201", "409", "OTHER", "ERROR"}

\* Mutant: the registry is asked even when the cache file holds credentials.
fetch_credentials_always_register(cache, response, save_ok) ==
    IF response = "201"
    THEN [credentials |-> "fresh", calls |-> 1,
          cache |-> IF save_ok THEN "valid" ELSE cache,
          response |-> response, saved |-> save_ok]
    ELSE [credentials |-> "None", calls |-> 1, cache |-> cache,
          response |-> response, saved |-> FALSE]

\* _fetch_credentials_from_registry: a readable cache file is returned as it
\* is; otherwise one POST /register is made, and on 201 the credentials are
\* written to the cache file (a failing write is logged) and returned; every
\* other outcome returns None.
fetch_credentials(cache, response, save_ok) ==
    IF cache = "valid"
    THEN [credentials |-> "cached", calls |-> 0, cache |-> cache,
          response |-> "NONE", saved |-> FALSE]
    ELSE IF response = "201"
    THEN [credentials |-> "fresh", calls |-> 1,
          cache |-> IF save_ok THEN "valid" ELSE cache,
          response |-> response, saved |-> save_ok]
    ELSE [credentials |-> "None", calls |-> 1, cache |-> cache,
          response |-> response, saved |-> FALSE]

\* connect_to_central, first part: the credentials are resolved; without
\* credentials the function returns False.
FetchCredentials ==
    /\ run_pc = "credentials"
    /\ \E response \in RegistryResponses, save_ok \in BOOLEAN :
         LET r == fetch_credentials(cache_file, response, save_ok)
             ok == r.credentials # "None"
         IN  /\ credentials' = r.credentials
             /\ registry_calls' = registry_calls + r.calls
             /\ resolution' = [cache |-> cache_file, response |-> r.response,
                               saved |-> r.saved]
             /\ cache_file' = r.cache
             /\ auth_result' = IF ok THEN "none" ELSE "False"
             /\ run_pc' = IF ok THEN "connect_central"
                          ELSE run_after_connect(FALSE, "start_listener")
    /\ UNCHANGED frame_vars
    /\ UNCHANGED <<health_vars, session_vars, link_vars, thread_vars, health_hist,
                   session_hist, encryption_key, engine_attempts, engine_slept,
                   engine_result, central_attempts, central_slept, auth_response,
                   console, started>>

\* connect_to_central: one pass of its retry loop.
ConnectCentral ==
    /\ run_pc = "connect_central"
    /\ central_attempts < max_retries
    /\ \E ok \in BOOLEAN :
         LET r == connect_retry(central_attempts, ok)
         IN  /\ central_attempts' = central_attempts + 1
             /\ central_slept' = central_slept + (IF r = "retry" THEN retry_delay ELSE 0)
             /\ central_socket' = IF r = "connected" THEN "open" ELSE "unconnected"
             /\ auth_result' = IF r = "failed" THEN "False" ELSE "none"
             /\ run_pc' = CASE r = "retry" -> "connect_central"
                            [] r = "connected" -> "authenticate"
                            [] OTHER -> run_after_connect(FALSE, "start_listener")
             /\ started' = IF r = "connected" THEN Append(started, "central") ELSE started
    /\ UNCHANGED cred_vars
    /\ UNCHANGED frame_vars
    /\ UNCHANGED <<health_vars, session_vars, running, engine_socket, thread_vars,
                   health_hist, session_hist, encryption_key, engine_attempts,
                   engine_slept, engine_result, auth_response, console>>

\* connect_to_central: the AUTHENTICATE message is sent; a send that raises
\* makes the function return False.
Authenticate ==
    /\ run_pc = "authenticate"
    /\ central_out' = Append(central_out, Send("AUTHENTICATE", central_socket))
    /\ auth_result' = IF central_socket = "open" THEN "none" ELSE "False"
    /\ run_pc' = IF central_socket = "open" THEN "await_auth"
                 ELSE run_after_connect(FALSE, "start_listener")
    /\ UNCHANGED cred_vars
    /\ UNCHANGED frame_vars
    /\ UNCHANGED <<health_vars, session_vars, link_vars, thread_vars, cycles, last_cycle,
                   run_len, run_healthy, run_faults, session_hist, encryption_key,
                   engine_attempts, engine_slept, engine_result, central_attempts,
                   central_slept, auth_response, console, started>>

Register(link) ==
    [type |-> "REGISTER", ok |-> (link = "open"), locked |-> FALSE,
     args |-> <<"MONITOR", cp_id, cp_id>>]

\* Mutant: a DENY is answered like an AUTHENTICATED.
auth_reply_deny_as_ok(resp, key, link) ==
    IF resp.type \in {"AUTHENTICATED", "DENY"}
    THEN [key |-> IF resp.arg # Absent THEN resp.arg ELSE key,
          sent |-> <<Register(link)>>,
          result |-> IF link = "open" THEN "True" ELSE "False",
          console |-> "None"]
    ELSE [key |-> key, sent |-> <<>>, result |-> "False", console |-> "None"]

\* Mutant: a response of another type is taken for an AUTHENTICATED.
auth_reply_any_type(resp, key, link) ==
    CASE resp.type \in {"AUTHENTICATED", "OTHER"} ->
            [key |-> IF resp.arg # Absent THEN resp.arg ELSE key,
             sent |-> <<Register(link)>>,
             result |-> IF link = "open" THEN "True" ELSE "False",
             console |-> "None"]
      [] resp.type = "DENY" ->
            [key |-> key, sent |-> <<>>, result |-> "False",
             console |-> IF resp.arg # Absent THEN resp.arg ELSE "UNKNOWN"]
      [] OTHER ->
            [key |-> key, sent |-> <<>>, result |-> "False", console |-> "None"]

\* Mutant: the key of an AUTHENTICATED response is not cached.
auth_reply_no_cache(resp, key, link) ==
    CASE resp.type = "AUTHENTICATED" ->
            [key |-> key,
             sent |-> <<Register(link)>>,
             result |-> IF link = "open" THEN "True" ELSE "False",
             console |-> "None"]
      [] resp.type = "DENY" ->
            [key |-> key, sent |-> <<>>, result |-> "False",
             console |-> IF resp.arg # Absent THEN resp.arg ELSE "UNKNOWN"]
      [] OTHER ->
            [key |-> key, sent |-> <<>>, result |-> "False", console |-> "None"]

\* connect_to_central, from the recv() after AUTHENTICATE to the return.
\* AUTHENTICATED: fields[2], if there is one, becomes the key; REGISTER is
\* sent, and a send that raises lands in `except Exception`, which returns
\* False.  DENY: fields[2] (or "UNKNOWN") is printed and False is returned.
\* Everything else returns False.
auth_reply(resp, key, link) ==
    CASE resp.type = "AUTHENTICATED" ->
            [key |-> IF resp.arg # Absent THEN resp.arg ELSE key,
             sent |-> <<Register(link)>>,
             result |-> IF link = "open" THEN "True" ELSE "False",
             console |-> "None"]
      [] resp.type = "DENY" ->
            [key |-> key, sent |-> <<>>, result |-> "False",
             console |-> IF resp.arg # Absent THEN resp.arg ELSE "UNKNOWN"]
      [] OTHER ->
            [key |-> key, sent |-> <<>>, result |-> "False", console |-> "None"]

\* response_data = central_socket.recv(4096): the read that brings the
\* AUTHENTICATED frame returns with it any number of the bytes the controller
\* has sent behind it.  Protocol.decode takes the first frame of
\* response_data; the local variable is dropped when connect_to_central
\* returns.
auth_read(resp, pending) == IF resp.type = "AUTHENTICATED" THEN 0..pending ELSE {0}

AwaitAuth ==
    /\ run_pc = "await_auth"
    /\ \E resp \in AuthResponses :
         LET r == auth_reply(resp, encryption_key, central_socket)
         IN  /\ auth_response' = resp
             /\ encryption_key' = r.key
             /\ central_out' = central_out \o r.sent
             /\ auth_result' = r.result
             /\ console' = r.console
             /\ run_pc' = run_after_connect(r.result = "True", "start_listener")
             /\ started' = IF r.result = "True" THEN Append(started, "auth") ELSE started
             /\ \E n \in auth_read(resp, Len(stream) - received) : received' = received + n
    /\ UNCHANGED cred_vars
    /\ UNCHANGED <<pushed, stream, carried, decoded, buffer, dispatched,
                   codec_msg, codec_frame, codec_out, side_vars>>
    /\ UNCHANGED <<health_vars, session_vars, link_vars, thread_vars, cycles, last_cycle,
                   run_len, run_healthy, run_faults, session_hist, engine_attempts,
                   engine_slept, engine_result, central_attempts, central_slept>>

\* run(): the listener thread is started.  The two connect functions have
\* returned; the record of their retry loops ends here.
StartListener ==
    /\ run_pc = "start_listener"
    /\ run_pc' = "start_health"
    /\ listener_pc' = "recv"
    /\ started' = Append(started, "listener")
    /\ engine_attempts' = 0
    /\ engine_slept' = 0
    /\ central_attempts' = 0
    /\ central_slept' = 0
    /\ UNCHANGED cred_vars
    /\ UNCHANGED frame_vars
    /\ UNCHANGED <<health_vars, session_vars, link_vars, health_pc, tickers, health_hist,
                   session_hist, encryption_key, engine_result, auth_response,
                   auth_result, console>>

\* run(): the health thread is started and the menu is entered.
StartHealth ==
    /\ run_pc = "start_health"
    /\ run_pc' = "menu"
    /\ health_pc' = "sleep"
    /\ started' = Append(started, "health")
    /\ UNCHANGED cred_vars
    /\ UNCHANGED frame_vars
    /\ UNCHANGED <<health_vars, session_vars, link_vars, listener_pc, tickers, health_hist,
                   session_hist, encryption_key, engine_attempts, engine_slept,
                   engine_result, central_attempts, central_slept, auth_response,
                   auth_result, console>>

\* _listen_central leaves its loop: recv() returned no data or raised on a
\* link that is gone, or the running flag was cleared.
ListenerExit ==
    /\ listener_pc = "recv"
    /\ central_socket # "open" \/ ~running
    /\ listener_pc' = "done"
    /\ UNCHANGED frame_vars
    /\ UNCHANGED <<health_vars, session_vars, link_vars, health_pc, tickers, health_hist,
                   session_hist, startup_vars>>

RunStep ==
    \/ ConnectEngine
    \/ FetchCredentials
    \/ ConnectCentral
    \/ Authenticate
    \/ AwaitAuth
    \/ StartListener
    \/ StartHealth

NextStartup ==
    \/ RunStep
    \/ CentralLost
    \/ ListenerExit
    \/ HealthCheck
    \/ Quit

\* The main thread is the only thread until it starts the other two, and
\* each of its calls returns (connect and recv under their timeouts), so it
\* takes its next step.
SpecStartup == InitStartup /\ [][NextStartup]_vars /\ WF_vars(RunStep)

(***************************************************************************)
(* Start-up: properties.                                                    *)
(***************************************************************************)
\* connect_to_central got an AUTHENTICATED response that carries a key.
AuthenticatedWithKey ==
    auth_response.type = "AUTHENTICATED" /\ auth_response.arg \in Keys

\* Exactly one AUTHENTICATE and one REGISTER("MONITOR", cp_id, cp_id) were
\* sent on the controller link, in that order, before anything else.
OneRegisterAfterAuthenticate ==
    /\ NumSent(central_out, "AUTHENTICATE") = 1
    /\ NumSent(central_out, "REGISTER") = 1
    /\ Len(central_out) >= 2
    /\ central_out[1].type = "AUTHENTICATE"
    /\ central_out[2].type = "REGISTER"
    /\ central_out[2].args = <<"MONITOR", cp_id, cp_id>>

\* C12 (as claimed): when the response is AUTHENTICATED carrying a key k,
\* connect_to_central caches k, sends exactly one REGISTER("MONITOR", cp_id,
\* cp_id) after AUTHENTICATE, and returns success.
C12_AuthenticatedSucceeds ==
    AuthenticatedWithKey =>
        /\ encryption_key = auth_response.arg
        /\ OneRegisterAfterAuthenticate
        /\ auth_result = "True"

\* C12 (amended): when the response is AUTHENTICATED carrying a key k,
\* connect_to_central caches k and makes exactly one REGISTER("MONITOR",
\* cp_id, cp_id) send after AUTHENTICATE; it returns success if that send
\* goes through and failure, with k still cached, if that send raises.
C12_AuthenticatedRegisters ==
    AuthenticatedWithKey =>
        /\ encryption_key = auth_response.arg
        /\ OneRegisterAfterAuthenticate
        /\ auth_result = (IF central_out[2].ok THEN "True" ELSE "False")

\* connect_to_central has returned success on AUTHENTICATED with key k1.
C12_Witness ==
    /\ AuthenticatedWithKey
    /\ auth_response.arg = "k1"
    /\ encryption_key = "k1"
    /\ auth_result = "True"
    /\ run_pc = "start_listener"

\* connect_to_central got a DENY response that carries a reason.
DeniedWithReason ==
    auth_response.type = "DENY" /\ auth_response.arg \in Reasons

\* The value connect_to_central returned, read as a failure report: the
\* function returns a Python bool, which has no reason in it.
Returned == [ok |-> auth_result, reason |-> "None"]

NoVerdict == auth_response.type \in {"TIMEOUT", "EMPTY", "INVALID", "OTHER", "ERROR"}

\* C14: when, after AUTHENTICATE is sent, the response times out, the
\* connection is closed, the response cannot be decoded or it is of another
\* type than AUTHENTICATED and DENY, connect_to_central returns failure (and
\* run() stops), no REGISTER is sent, no key is cached and exactly one
\* AUTHENTICATE was sent.
C14_FailureWithoutRetry ==
    NoVerdict =>
        /\ auth_result = "False"
        /\ run_pc = "aborted"
        /\ NumSent(central_out, "REGISTER") = 0
        /\ NumSent(central_out, "AUTHENTICATE") = 1
        /\ central_out = <<Send("AUTHENTICATE", "open")>>
        /\ encryption_key = NoKey

\* connect_to_central has returned after a response of an unexpected type,
\* at the third attempt to connect to the controller.
C14_Witness ==
    /\ auth_response.type = "OTHER"
    /\ auth_result = "False"
    /\ central_attempts = 3
    /\ run_pc = "aborted"

Stages == <<"engine", "central", "auth", "listener", "health">>

\* C15: run() brings the parts up in the order engine connection,
\* controller connection and authentication, listener, health loop.  When
\* the engine connection fails, no controller connection is opened and no
\* AUTHENTICATE is sent; when connect_to_central fails, neither the listener
\* nor the health loop is started, so no health cycle ever runs.
C15_StartOrder ==
    /\ Len(started) <= Len(Stages)
    /\ started = SubSeq(Stages, 1, Len(started))
    /\ listener_pc # "idle" =>
          engine_socket # "None" /\ central_socket # "None" /\ auth_result = "True"
    /\ health_pc # "idle" => listener_pc # "idle"
    /\ central_socket # "None" => engine_result = "True"
    /\ engine_result = "False" =>
          /\ run_pc = "aborted"
          /\ central_socket = "None"
          /\ central_attempts = 0
          /\ NumSent(central_out, "AUTHENTICATE") = 0
    /\ auth_result = "False" =>
          /\ run_pc = "aborted"
          /\ listener_pc = "idle"
          /\ health_pc = "idle"
          /\ cycles = 0

\* All five stages are through and the health loop has run a cycle.
C15_Witness ==
    /\ started = Stages
    /\ run_pc = "menu"
    /\ cycles = 1

\* run() has not yet started the threads (or has given up): the record of
\* the two retry loops is still there.
RetryRecordKept == run_pc \notin {"start_health", "menu"}

\* The retry loop of one link: attempts made, seconds slept, whether it is
\* still running, and whether it ended in a connection or in failure.
RetryLoopOK(attempts, slept, looping, connected, failed) ==
    /\ attempts <= max_retries
    /\ looping => attempts < max_retries /\ slept = retry_delay * attempts
    /\ connected => attempts \in 1..max_retries /\ slept = retry_delay * (attempts - 1)
    /\ failed => attempts = max_retries /\ slept = retry_delay * (max_retries - 1)
    /\ ~(connected /\ failed)

RetrySafe ==
    RetryRecordKept =>
        /\ RetryLoopOK(engine_attempts, engine_slept,
                       run_pc = "connect_engine",
                       engine_socket = "open",
                       engine_result = "False")
        /\ RetryLoopOK(central_attempts, central_slept,
                       run_pc = "connect_central",
                       central_socket \in {"open", "broken"},
                       central_socket = "unconnected" /\ auth_result = "False")
        /\ engine_result = "True" <=> engine_socket = "open"
        /\ central_socket = "unconnected" /\ run_pc # "connect_central"
              => auth_result = "False"

\* C16: each of connect_to_engine and connect_to_central makes at most 10
\* connect attempts, stops at the first that succeeds and reports success,
\* sleeps the fixed delay after every failed attempt but the tenth, and
\* reports failure after the tenth failure; each of the two loops ends.
C16_BoundedRetry ==
    /\ []RetrySafe
    /\ (run_pc = "connect_engine") ~> (run_pc # "connect_engine")
    /\ (run_pc = "connect_central") ~> (run_pc # "connect_central")

\* The engine was reached at the fourth attempt and the controller was given
\* up after the tenth.
C16_Witness ==
    /\ engine_attempts = 4
    /\ engine_slept = 3 * retry_delay
    /\ engine_result = "True"
    /\ central_attempts = max_retries
    /\ central_slept = 9 * retry_delay
    /\ auth_result = "False"
    /\ run_pc = "aborted"

\* C20 (as claimed): the session key is set only by a successful
\* authentication and is discarded when the controller connection drops:
\* once the listener has seen the stream closed or failing, or the
\* controller socket has been closed, no key is cached.
C20_KeyDiesWithLink ==
    /\ encryption_key # NoKey =>
          auth_response.type = "AUTHENTICATED" /\ encryption_key = auth_response.arg
    /\ (listener_pc = "done" \/ central_socket = "closed") => encryption_key = NoKey

(***************************************************************************)
(* Frame codec: Protocol.build_message, encode, decode and parse_message   *)
(* of shared/protocol.py, which the monitor imports.  A frame is a start   *)
(* marker, the delimited field list, and an end-of-frame marker followed   *)
(* by a fixed trailer byte.  A byte string is a sequence of bytes.         *)
(***************************************************************************)
\* fields of a message handed to the codec
MaxFields == 2
\* bytes of one such field
MaxFieldLen == 2

STX == "STX"
ETX == "ETX"
TRAILER == "TRL"
DELIMITER == "#"

\* Bytes a field may hold: anything but the delimiter and the terminator.
FieldBytes == {"a", "b", STX}

\* 1-based index of the first b in buf, 0 if there is none (bytes.find)
Find(buf, b) ==
    IF \E i \in 1..Len(buf) : buf[i] = b
    THEN CHOOSE i \in 1..Len(buf) : buf[i] = b /\ \A j \in 1..(i - 1) : buf[j] # b
    ELSE 0

\* build_message: the fields joined by the delimiter
RECURSIVE build_message(_)
build_message(fields) ==
    IF Len(fields) = 1 THEN fields[1]
    ELSE fields[1] \o <<DELIMITER>> \o build_message(Tail(fields))

encode(message) == <<STX>> \o message \o <<ETX, TRAILER>>

\* Mutant: decode takes the end-of-frame marker into the message.
decode_with_marker(buf) ==
    IF buf = <<>> THEN [message |-> <<>>, status |-> "INCOMPLETE"]
    ELSE IF buf[1] # STX THEN [message |-> <<>>, status |-> "CORRUPT"]
    ELSE LET p == Find(buf, ETX)
         IN  IF p = 0 \/ p = Len(buf) THEN [message |-> <<>>, status |-> "INCOMPLETE"]
             ELSE IF buf[p + 1] # TRAILER THEN [message |-> <<>>, status |-> "CORRUPT"]
             ELSE [message |-> SubSeq(buf, 2, p), status |-> "OK"]

\* decode: the first frame of the buffer.  INCOMPLETE while the end-of-frame
\* marker or the trailer byte has not arrived; CORRUPT when the buffer does
\* not begin with the start marker or the trailer byte is wrong; otherwise
\* OK with the bytes between the two markers.  The caller's is_valid is
\* status = OK.
decode(buf) ==
    IF buf = <<>> THEN [message |-> <<>>, status |-> "INCOMPLETE"]
    ELSE IF buf[1] # STX THEN [message |-> <<>>, status |-> "CORRUPT"]
    ELSE LET p == Find(buf, ETX)
         IN  IF p = 0 \/ p = Len(buf) THEN [message |-> <<>>, status |-> "INCOMPLETE"]
             ELSE IF buf[p + 1] # TRAILER THEN [message |-> <<>>, status |-> "CORRUPT"]
             ELSE [message |-> SubSeq(buf, 2, p - 1), status |-> "OK"]

\* parse_message: the message split at every delimiter
RECURSIVE parse_message(_)
parse_message(message) ==
    LET p == Find(message, DELIMITER)
    IN  IF p = 0 THEN <<message>>
        ELSE <<SubSeq(message, 1, p - 1)>>
                 \o parse_message(SubSeq(message, p + 1, Len(message)))

SeqsUpTo(S, n) == UNION {[1..k -> S] : k \in 0..n}
CodecFields == SeqsUpTo(FieldBytes, MaxFieldLen)
\* A valid message: the type tag and the fields after it.
CodecMessages == UNION {[1..k -> CodecFields] : k \in 1..MaxFields}

InitCodec ==
    /\ running = TRUE
    /\ engine_socket = "open"
    /\ central_socket = "open"
    /\ engine_healthy = TRUE
    /\ consecutive_failures = 0
    /\ current_driver = NoDriver
    /\ charging_active = FALSE
    /\ elapsed = -1
    /\ charge_progress = 0
    /\ last_progress_update = 0
    /\ charging_complete = FALSE
    /\ run_pc = "menu"
    /\ health_pc = "sleep"
    /\ listener_pc = "recv"
    /\ tickers = [t \in TickerIds |-> DeadTicker]
    /\ central_out = <<>>
    /\ reports = <<>>
    /\ cycles = 0
    /\ last_cycle = NoCycle
    /\ run_len = 0
    /\ run_healthy = TRUE
    /\ run_faults = 0
    /\ events = 0
    /\ last_msg = "NONE"
    /\ last_driver = NoDriver
    /\ session_no = 0
    /\ encryption_key = NoKey
    /\ engine_attempts = 0
    /\ engine_slept = 0
    /\ engine_result = "True"
    /\ central_attempts = 0
    /\ central_slept = 0
    /\ auth_response = NoResponse
    /\ auth_result = "True"
    /\ console = "None"
    /\ started = <<>>
    /\ CachedCredentials
    /\ pushed = <<>>
    /\ stream = <<>>
    /\ received = 0
    /\ carried = FALSE
    /\ decoded = 0
    /\ NoSide
    /\ buffer = <<>>
    /\ dispatched = <<>>
    /\ codec_msg \in CodecMessages
    /\ codec_frame = <<>>
    /\ codec_out = NoOutput

\* Protocol.encode(Protocol.build_message(type, *fields))
Encode ==
    /\ codec_frame = <<>>
    /\ codec_frame' = encode(build_message(codec_msg))
    /\ UNCHANGED <<health_vars, session_vars, link_vars, thread_vars, health_hist,
                   session_hist, startup_vars, pushed, stream, received, carried, decoded,
                   side_vars,
                   buffer, dispatched,
                   codec_msg, codec_out>>

\* Protocol.decode(frame), and Protocol.parse_message on what it returns
Decode ==
    /\ codec_frame # <<>>
    /\ codec_out = NoOutput
    /\ LET d == decode(codec_frame)
       IN  codec_out' = [status |-> d.status,
                         fields |-> IF d.status = "OK" THEN parse_message(d.message)
                                                       ELSE <<>>]
    /\ UNCHANGED <<health_vars, session_vars, link_vars, thread_vars, health_hist,
                   session_hist, startup_vars, pushed, stream, received, carried, decoded,
                   side_vars,
                   buffer, dispatched,
                   codec_msg, codec_frame>>

NextCodec == Encode \/ Decode

SpecCodec == InitCodec /\ [][NextCodec]_vars

\* C17: for every valid message m (a type tag and ordered fields that hold
\* no delimiter and no terminator byte), decoding encode(m) gives status OK
\* and the fields of m, in order.
C17_RoundTrip ==
    codec_out # NoOutput => codec_out.status = "OK" /\ codec_out.fields = codec_msg

\* A message with an empty field and a field that holds the start-marker
\* byte has been through encode and decode.
C17_Witness ==
    /\ codec_msg = <<<<STX, "a">>, <<>>>>
    /\ codec_frame = <<STX, STX, "a", DELIMITER, ETX, TRAILER>>
    /\ codec_out.status = "OK"
    /\ codec_out.fields = codec_msg

(***************************************************************************)
(* Controller listener on the byte stream: _listen_central's recv, its     *)
(* buffer and its decode loop.                                              *)
(***************************************************************************)
\* frames the controller pushes in one run
MaxFrames == 2

\* Message-type names and driver ids on the wire, each abbreviated to a short
\* byte string.
MessageTypes == [DRIVER_START |-> <<"D", "S">>,
                 CHARGING_COMPLETE |-> <<"C", "C">>,
                 DRIVER_STOP |-> <<"D", "P">>]
TypeName(tag) ==
    CASE tag = MessageTypes.DRIVER_START -> "DRIVER_START"
      [] tag = MessageTypes.CHARGING_COMPLETE -> "CHARGING_COMPLETE"
      [] tag = MessageTypes.DRIVER_STOP -> "DRIVER_STOP"
      [] OTHER -> "UNKNOWN"
DriverId(field) ==
    CASE field = <<"1">> -> "driver1"
      [] field = <<"2">> -> "driver2"
      [] OTHER -> "other"

\* What the controller pushes: DRIVER_START(cp, driver), CHARGING_COMPLETE(cp)
\* and DRIVER_STOP(cp).
PushedMessages ==
    {<<MessageTypes.DRIVER_START, <<"c">>, <<"1">>>>,
     <<MessageTypes.DRIVER_START, <<"c">>, <<"2">>>>,
     <<MessageTypes.CHARGING_COMPLETE, <<"c">>>>,
     <<MessageTypes.DRIVER_STOP, <<"c">>>>}

\* The frame of a pushed message as it arrives: intact, or complete with a
\* wrong trailer byte.
FrameOf(push) ==
    LET f == encode(build_message(push.fields))
    IN  IF push.intact THEN f ELSE [f EXCEPT ![Len(f)] = "x"]

RECURSIVE StreamOf(_)
StreamOf(pushes) ==
    IF pushes = <<>> THEN <<>> ELSE FrameOf(Head(pushes)) \o StreamOf(Tail(pushes))

Pushes == [fields : PushedMessages, intact : BOOLEAN]

\* The session fields the handlers of _listen_central read and write.
SessionNow ==
    [current_driver |-> current_driver, charging_active |-> charging_active,
     elapsed |-> elapsed, charge_progress |-> charge_progress,
     last_progress_update |-> last_progress_update,
     charging_complete |-> charging_complete, tickers |-> tickers,
     reports |-> reports, session_no |-> session_no, events |-> events,
     last_msg |-> last_msg, last_driver |-> last_driver, raised |-> FALSE]

\* _listen_central, the dispatch on msg_type for one decoded message.
\* DRIVER_START reads fields[2], which raises on a shorter message; a type
\* that matches no branch changes nothing.
on_message(fields, st) ==
    LET type == TypeName(fields[1])
        seen == [st EXCEPT !.events = st.events + 1, !.last_msg = type,
                           !.last_driver = NoDriver]
    IN  CASE type = "DRIVER_START" /\ Len(fields) < 3 -> [seen EXCEPT !.raised = TRUE]
          [] type = "DRIVER_START" /\ Len(fields) >= 3 ->
                LET free == {t \in TickerIds : st.tickers[t].pc = "dead"}
                IN  [seen EXCEPT !.current_driver = DriverId(fields[3]),
                                 !.last_driver = DriverId(fields[3]),
                                 !.charging_active = TRUE,
                                 !.elapsed = 0,
                                 !.charge_progress = 0,
                                 !.last_progress_update = 0,
                                 !.charging_complete = FALSE,
                                 !.session_no = st.session_no + 1,
                                 !.tickers = [st.tickers EXCEPT ![Lowest(free)] =
                                     [pc |-> "check", wake |-> 0, progress |-> 0]]]
          [] type = "CHARGING_COMPLETE" ->
                [seen EXCEPT !.charging_complete = TRUE, !.charge_progress = 100]
          [] type = "DRIVER_STOP" ->
                [seen EXCEPT !.current_driver = NoDriver,
                             !.charging_active = FALSE,
                             !.charging_complete = FALSE,
                             !.charge_progress = 0,
                             !.reports =
                                 IF st.charging_active \/ st.charging_complete
                                 THEN Append(st.reports,
                                             [session |-> st.session_no,
                                              outcome |-> Outcome(st.charge_progress)])
                                 ELSE st.reports]
          [] OTHER -> seen

\* Mutant: an invalid decode empties the buffer.
after_invalid_discard(buf) == <<>>

\* `else: break` of the decode loop: the buffer stays as it is.
after_invalid(buf) == buf

\* Mutant: the cut after a decoded frame leaves the frame's trailer byte.
after_valid_keep_trailer(buf) == SubSeq(buf, Find(buf, ETX) + 1, Len(buf))

\* etx_pos = buffer.find(ETX); buffer = buffer[etx_pos + 2:]
after_valid(buf) == SubSeq(buf, Find(buf, ETX) + 2, Len(buf))

\* `while len(buffer) > 0`: decode the head of the buffer; a valid frame is
\* cut off and its message dispatched, anything else ends the loop.  A handler
\* that raises ends the listener.
RECURSIVE drain(_, _)
drain(buf, st) ==
    IF buf = <<>> THEN [buffer |-> buf, st |-> st, dispatched |-> <<>>]
    ELSE LET d == decode(buf)
         IN  IF d.status = "OK"
             THEN LET fields == parse_message(d.message)
                      after == on_message(fields, st)
                      rest == IF after.raised
                              THEN [buffer |-> after_valid(buf), st |-> after,
                                    dispatched |-> <<>>]
                              ELSE drain(after_valid(buf), after)
                  IN  [rest EXCEPT !.dispatched = <<fields>> \o rest.dispatched]
             ELSE [buffer |-> after_invalid(buf), st |-> st, dispatched |-> <<>>]

\* The monitor in its menu (as in Init) and the controller about to push
\* one to MaxFrames frames.
InitListener ==
    /\ running = TRUE
    /\ engine_socket = "open"
    /\ central_socket = "open"
    /\ engine_healthy = TRUE
    /\ consecutive_failures = 0
    /\ current_driver = NoDriver
    /\ charging_active = FALSE
    /\ elapsed = -1
    /\ charge_progress = 0
    /\ last_progress_update = 0
    /\ charging_complete = FALSE
    /\ run_pc = "menu"
    /\ health_pc = "sleep"
    /\ listener_pc = "recv"
    /\ tickers = [t \in TickerIds |-> DeadTicker]
    /\ central_out = <<>>
    /\ reports = <<>>
    /\ cycles = 0
    /\ last_cycle = NoCycle
    /\ run_len = 0
    /\ run_healthy = TRUE
    /\ run_faults = 0
    /\ events = 0
    /\ last_msg = "NONE"
    /\ last_driver = NoDriver
    /\ session_no = 0
    /\ encryption_key = NoKey
    /\ engine_attempts = 0
    /\ engine_slept = 0
    /\ engine_result = "True"
    /\ central_attempts = 0
    /\ central_slept = 0
    /\ auth_response = NoResponse
    /\ auth_result = "True"
    /\ console = "None"
    /\ started = <<>>
    /\ CachedCredentials
    /\ pushed \in UNION {[1..k -> Pushes] : k \in 1..MaxFrames}
    /\ stream = StreamOf(pushed)
    /\ received = 0
    /\ carried = FALSE
    /\ decoded = 0
    /\ NoSide
    /\ buffer = <<>>
    /\ dispatched = <<>>
    /\ codec_msg = <<>>
    /\ codec_frame = <<>>
    /\ codec_out = NoOutput

\* _listen_central: one recv() that returns data, and the decode loop that
\* follows it.  The read returns any non-empty run of the bytes that have
\* not been read yet.
ListenerRecv ==
    /\ listener_pc = "recv"
    /\ running
    /\ central_socket = "open"
    /\ received < Len(stream)
    /\ \E n \in 1..(Len(stream) - received) :
         LET data == SubSeq(stream, received + 1, received + n)
             r == drain(buffer \o data, SessionNow)
         IN  /\ received' = received + n
             /\ carried' = (buffer # <<>>)
             /\ decoded' = Len(r.dispatched)
             /\ buffer' = r.buffer
             /\ dispatched' = dispatched \o r.dispatched
             /\ current_driver' = r.st.current_driver
             /\ charging_active' = r.st.charging_active
             /\ elapsed' = r.st.elapsed
             /\ charge_progress' = r.st.charge_progress
             /\ last_progress_update' = r.st.last_progress_update
             /\ charging_complete' = r.st.charging_complete
             /\ tickers' = r.st.tickers
             /\ reports' = r.st.reports
             /\ session_no' = r.st.session_no
             /\ events' = r.st.events
             /\ last_msg' = r.st.last_msg
             /\ last_driver' = r.st.last_driver
             /\ listener_pc' = IF r.st.raised THEN "done" ELSE "recv"
    /\ UNCHANGED <<health_vars, link_vars, health_pc, health_hist, startup_vars,
                   pushed, stream, codec_msg, codec_frame, codec_out, side_vars>>

NextListener ==
    \/ ListenerRecv
    \/ ListenerExit
    \/ CentralLost
    \/ Quit

SpecListener == InitListener /\ [][NextListener]_vars

(***************************************************************************)
(* Controller listener on the byte stream: properties.                      *)
(***************************************************************************)
AllIntact == \A i \in 1..Len(pushed) : pushed[i].intact

\* Offset in the stream at which the k-th pushed frame ends.
RECURSIVE EndOf(_)
EndOf(k) == IF k = 0 THEN 0 ELSE EndOf(k - 1) + Len(FrameOf(pushed[k]))

\* Frames that have arrived in full.
Complete ==
    CHOOSE k \in 0..Len(pushed) :
        /\ EndOf(k) <= received
        /\ k < Len(pushed) => EndOf(k + 1) > received

\* C18: however the reads cut the stream of valid frames, after each read
\* the listener has dispatched exactly the messages whose frames have
\* arrived in full, once each, in order and with the fields they were built
\* from, and its buffer holds every byte of the frame that has arrived in
\* part.  So a frame split across two reads is not dispatched and loses no
\* byte after the first, and is dispatched once after the second.
C18_PartialFrameSafe ==
    AllIntact =>
        /\ dispatched = [i \in 1..Complete |-> pushed[i].fields]
        /\ buffer = SubSeq(stream, EndOf(Complete) + 1, received)

\* A DRIVER_START frame has been dispatched by a read that found the first
\* part of the frame in the buffer.
C18_Witness ==
    /\ pushed = <<[fields |-> <<MessageTypes.DRIVER_START, <<"c">>, <<"1">>>>,
                   intact |-> TRUE]>>
    /\ carried
    /\ received = Len(stream)
    /\ buffer = <<>>
    /\ dispatched = <<pushed[1].fields>>
    /\ current_driver = "driver1"
    /\ charging_active

\* C19 (as claimed): when the listener's buffer holds a frame that is
\* complete but malformed, the listener closes the controller connection
\* and reads no more; it does not keep the bytes and go on reading.
C19_CorruptCloses ==
    decode(buffer).status = "CORRUPT" =>
        central_socket = "closed" /\ listener_pc = "done"

(***************************************************************************)
(* Lock discipline, shutdown and the frame conditions of the threads.       *)
(***************************************************************************)
\* C21 (as claimed): no send on the controller link is made by a thread that
\* holds the monitor's lock.
C21_NoSendUnderLock ==
    \A i \in 1..Len(central_out) : ~central_out[i].locked

(***************************************************************************)
(* Credential resolution: properties.                                       *)
(***************************************************************************)
Resolved == resolution # NoResolution

\* The parts of credential resolution that do not concern the cache write:
\* a cache hit uses the cached credentials without a registry call; a miss
\* makes exactly one registry call; a 409 fails the resolution and run()
\* stops with no controller connection tried and no AUTHENTICATE sent.
ResolutionRules ==
    /\ resolution.cache = "valid" => registry_calls = 0 /\ credentials = "cached"
    /\ resolution.cache # "valid" => registry_calls = 1
    /\ resolution.response = "409" =>
          /\ credentials = "None"
          /\ auth_result = "False"
          /\ run_pc = "aborted"
          /\ central_socket = "None"
          /\ central_attempts = 0
          /\ NumSent(central_out, "AUTHENTICATE") = 0

\* C23 (as claimed): on a cache hit the cached credentials are used and the
\* registry is never called; on a miss exactly one registration call is
\* made, and on success the fresh credentials are persisted to the cache and
\* used; on a 409 the resolution fails, nothing is retried and the
\* controller is never contacted.
C23_CredentialsPersisted ==
    Resolved =>
        /\ ResolutionRules
        /\ resolution.response = "201" => credentials = "fresh" /\ cache_file = "valid"

\* C23 (amended): as claimed, except that on success the fresh credentials
\* are used whether or not the write to the cache file succeeds; the cache
\* holds them only if the write went through.
C23_CredentialsUsed ==
    Resolved =>
        /\ ResolutionRules
        /\ resolution.response = "201" =>
              /\ credentials = "fresh"
              /\ resolution.saved => cache_file = "valid"
              /\ ~resolution.saved => cache_file = resolution.cache

\* With no cache file, the registry answered 201, the credentials were saved
\* and AUTHENTICATE has been sent.
C23_Witness ==
    /\ resolution = [cache |-> "absent", response |-> "201", saved |-> TRUE]
    /\ cache_file = "valid"
    /\ credentials = "fresh"
    /\ registry_calls = 1
    /\ NumSent(central_out, "AUTHENTICATE") = 1

(***************************************************************************)
(* Health monitor: kinds of reply.                                          *)
(***************************************************************************)
\* C25 (as claimed): a cycle whose decoded reply is neither HEALTH_OK nor
\* HEALTH_KO ends with consecutive_failures = 0 and the monitor HEALTHY, as
\* a HEALTH_OK cycle does.
C25_UnexpectedReplyResets ==
    last_cycle.reply = "OTHER" => (engine_healthy /\ consecutive_failures = 0)

\* The four ways a cycle fails with the engine link in place.
CountedReplies == {"HEALTH_KO", "INVALID", "EMPTY", "TIMEOUT"}

\* C26: a cycle that ends in HEALTH_KO, a reply that does not decode, an
\* empty read or a timeout raises consecutive_failures by exactly 1, and
\* with the same further effect whichever of the four it was: the monitor
\* turns FAULTY and one FAULT is sent iff it was HEALTHY and the counter
\* reached 3, otherwise engine_healthy is unchanged and nothing is sent.  No
\* cycle of any kind raises consecutive_failures by more than 1.
C26_FailureCountsOnce ==
    /\ last_cycle.reply \in CountedReplies =>
          /\ consecutive_failures = last_cycle.failures + 1
          /\ IF last_cycle.healthy /\ consecutive_failures >= 3
             THEN /\ ~engine_healthy
                  /\ Len(last_cycle.sent) = 1
                  /\ last_cycle.sent[1].type = "FAULT"
             ELSE /\ engine_healthy = last_cycle.healthy
                  /\ last_cycle.sent = <<>>
    /\ CycleRan => consecutive_failures <= last_cycle.failures + 1

\* An empty read was the third failure in a row: the counter went from 2 to
\* 3 and the FAULT went out.
C26_Witness ==
    /\ last_cycle.reply = "EMPTY"
    /\ last_cycle.healthy
    /\ last_cycle.failures = 2
    /\ consecutive_failures = 3
    /\ ~engine_healthy
    /\ NumSent(last_cycle.sent, "FAULT") = 1

\* C27 (as claimed): the health cycle that runs after shutdown has closed
\* the engine link counts no failure: it leaves consecutive_failures and
\* engine_healthy as they were and sends no FAULT.
C27_NoLinkNoFailure ==
    (health_pc = "done" /\ engine_socket # "open") =>
        /\ consecutive_failures = last_cycle.failures
        /\ engine_healthy = last_cycle.healthy
        /\ NumSent(last_cycle.sent, "FAULT") = 0

(***************************************************************************)
(* Charging session: progress and session states.                           *)
(***************************************************************************)
\* C24 (as claimed): charge_progress is always in 0..100, and from the
\* handling of a DRIVER_START until the next DRIVER_START or DRIVER_STOP is
\* handled no step lowers it, whether the step is the listener's
\* (CHARGING_COMPLETE) or a progress ticker's.
C24_ProgressMonotonic ==
    /\ [](charge_progress \in 0..100)
    /\ [][(current_driver # NoDriver /\ ~StartHandled /\ ~StopHandled) =>
              charge_progress' >= charge_progress]_vars

\* C30 (as claimed): no reachable state has charging_active and
\* charging_complete both true.
C30_OneSessionState == ~(charging_active /\ charging_complete)

(***************************************************************************)
(* Health monitor and charging session side by side: the listener, the      *)
(* progress tickers and the health thread of one monitor.                   *)
(***************************************************************************)
\* health cycles, controller messages and seconds of session time in one run
\* of the two together
MixCycles == 3
MixEvents == 1
MixElapsed == 4

NextMonitor ==
    \/ HealthCheck /\ cycles < MixCycles
    \/ DriverStart /\ events < MixEvents
    \/ ChargingComplete /\ events < MixEvents
    \/ DriverStop /\ events < MixEvents
    \/ \E t \in TickerIds : TickerCheck(t)
    \/ \E t \in TickerIds : TickerUpdate(t)
    \/ Advance /\ elapsed < MixElapsed

SpecMonitor == Init /\ [][NextMonitor]_vars

InitDrain == InitListener /\ AllIntact

SpecDrain == InitDrain /\ [][NextListener]_vars

\* The k-th to l-th pushed messages, as field lists.
PushedFields(k, l) == [i \in 1..(l - k + 1) |-> pushed[k + i - 1].fields]

\* C28: frames are drained in arrival order.  For a stream of valid frames,
\* a read that completes several frames (with or without the start of one
\* more behind them) has every one of them dispatched by its decode loop,
\* once each and in the order they arrived, one frame cut off the buffer
\* per decode, and leaves in the buffer exactly the bytes of the frame that
\* has arrived in part.
C28_DrainedInOrder ==
    [][(AllIntact /\ received' > received) =>
          /\ decoded' = Complete' - Complete
          /\ dispatched' = dispatched \o PushedFields(Complete + 1, Complete')
          /\ buffer' = SubSeq(stream, EndOf(Complete') + 1, received')]_vars

\* One read delivered the whole of a DRIVER_START frame and a DRIVER_STOP
\* frame: both were dispatched, in that order, and the buffer is empty.
C28_Witness ==
    /\ Len(pushed) = 2
    /\ AllIntact
    /\ TypeName(pushed[1].fields[1]) = "DRIVER_START"
    /\ TypeName(pushed[2].fields[1]) = "DRIVER_STOP"
    /\ received = Len(stream)
    /\ ~carried
    /\ decoded = 2
    /\ dispatched = <<pushed[1].fields, pushed[2].fields>>
    /\ buffer = <<>>
    /\ last_msg = "DRIVER_STOP"
    /\ Len(reports) = 1

(***************************************************************************)
(* Shutdown: quit (or end of input) in display_menu and the finally-block   *)
(* of run(), with the three kinds of thread still going.                    *)
(***************************************************************************)
\* health cycles and controller messages before the operator quits
ShutCycles == 1
ShutEvents == 1

\* The health thread; its last cycle, after the flag is cleared, is never cut
\* off by the bound on cycles.
ShutHealthCheck == HealthCheck /\ (running => cycles < ShutCycles)

NextShutdown ==
    \/ Quit
    \/ ShutHealthCheck
    \/ DriverStart /\ events < ShutEvents
    \/ \E t \in TickerIds : TickerCheck(t)
    \/ \E t \in TickerIds : TickerUpdate(t)
    \/ Advance
    \/ ListenerExit

\* The health thread sleeps one second and the tickers two, and time passes:
\* each of them gets to its next step.  The listener has no such guarantee:
\* connect_to_central removes the socket's timeout after the AUTHENTICATE
\* exchange (settimeout(None)), so its recv() returns only when the
\* controller sends or closes, and close() by the main thread does not wake
\* a recv() that is already blocked.
SpecShutdown ==
    /\ Init
    /\ [][NextShutdown]_vars
    /\ WF_vars(ShutHealthCheck)
    /\ WF_vars(Advance)
    /\ \A t \in TickerIds : WF_vars(TickerCheck(t)) /\ WF_vars(TickerUpdate(t))

LinksClosed == engine_socket = "closed" /\ central_socket = "closed"
HealthStopped == health_pc = "done"
TickersStopped == \A t \in TickerIds : ~Alive(t)
ListenerStopped == listener_pc = "done"

\* After shutdown the flag is down and both links are closed, and the health
\* loop and every progress ticker stop.
TimedLoopsStop ==
    /\ [](~running => LinksClosed)
    /\ ~running ~> (HealthStopped /\ TickersStopped)

\* C22 (as claimed): after quit or end of input, running is false and both
\* links are closed, and every loop eventually stops: the health monitor,
\* every progress ticker and the controller listener.
C22_ShutdownStopsLoops ==
    /\ TimedLoopsStop
    /\ ~running ~> ListenerStopped

(***************************************************************************)
(* FAULT and RECOVERY as the controller receives them.                      *)
(***************************************************************************)
IsReport(m) == m.type \in {"FAULT", "RECOVERY"}
IsDelivered(m) == IsReport(m) /\ m.ok

\* The FAULT and RECOVERY messages whose send went through, in order.
Delivered == SelectSeq(central_out, IsDelivered)

\* C31: the FAULT and RECOVERY messages delivered to the controller start
\* with a FAULT and alternate strictly, whichever sends on the controller
\* link failed; so each delivered RECOVERY directly follows the delivered
\* FAULT of its episode.
C31_ReportsAlternate ==
    \A i \in 1..Len(Delivered) :
        Delivered[i].type = IF i % 2 = 1 THEN "FAULT" ELSE "RECOVERY"

\* A FAULT was delivered, the link was then lost, and the RECOVERY send of
\* the same episode failed: the delivered sequence still ends with the FAULT.
C31_Witness ==
    /\ Len(Delivered) = 1
    /\ Delivered[1].type = "FAULT"
    /\ \E i \in 1..Len(central_out) :
          central_out[i].type = "RECOVERY" /\ ~central_out[i].ok

(***************************************************************************)
(* Progress tickers: how many, and for how long.                            *)
(***************************************************************************)
\* C32 (as claimed): at most one progress ticker is alive in any state.
C32_OneTicker == Cardinality(LiveTickers) <= 1

\* Ticker t has just been through the top of its loop (the `while
\* self.running` test and the first locked block).
AtLoopTop(t) ==
    /\ tickers[t].pc = "check"
    /\ tickers'[t].pc # "check" \/ tickers'[t].wake > tickers[t].wake

\* C33 (as claimed): once DRIVER_STOP has been handled and no controller
\* message has followed it, a ticker that comes to the top of its loop
\* exits there; none goes back to sleep for the stopped session.
C33_TickersExitAfterStop ==
    [][\A t \in TickerIds :
          (last_msg = "DRIVER_STOP" /\ AtLoopTop(t)) => ~Alive(t)']_vars

(***************************************************************************)
(* Sessions and their messages.                                             *)
(***************************************************************************)
\* C34 (as claimed): charging_complete = true only while a driver is
\* connected; a CHARGING_COMPLETE handled in the idle state leaves it idle.
C34_CompleteNeedsSession == charging_complete => current_driver # NoDriver

\* C35 (as claimed): while DRIVER_START is the last controller message
\* handled, charge_progress is at most floor(elapsed / 14 s * 100) for the
\* time elapsed since that DRIVER_START: nothing computed from an earlier
\* session's start time is written into the new session.
C35_NoProgressLeak ==
    last_msg = "DRIVER_START" => charge_progress <= Progress(elapsed)

(***************************************************************************)
(* The engine link as a stream: HEALTH_CHECK out, replies in, and a         *)
(* two-second timeout on the read.                                          *)
(***************************************************************************)
\* What the engine answers, and when its answer reaches the monitor's
\* socket: before the monitor calls recv, within the timeout, after the
\* timeout, or never.
EngineAnswers == {"HEALTH_OK", "HEALTH_KO"}
ReplyTimings == {"at_once", "in_time", "late", "none"}

\* engine_socket.recv(4096) after settimeout(2): bytes already waiting on the
\* socket are returned at once, whatever check they answer; otherwise the
\* reply to this check if it comes in time; otherwise socket.timeout.
engine_recv(waiting, mine, timing) ==
    IF waiting # <<>>
    THEN IF timing = "at_once" THEN waiting \o <<mine>> ELSE waiting
    ELSE IF timing \in {"at_once", "in_time"} THEN <<mine>> ELSE <<>>

\* What is left unread on the socket when the cycle is over.
engine_unread(waiting, mine, timing) ==
    CASE timing = "none" -> <<>>
      [] timing = "late" -> <<mine>>
      [] timing = "in_time" -> IF waiting # <<>> THEN <<mine>> ELSE <<>>
      [] OTHER -> <<>>

\* One iteration of health_check_loop with the engine link spelled out: the
\* HEALTH_CHECK is sent, the engine answers it or not, recv returns what is
\* on the socket, and Protocol.decode takes the first frame of what was
\* read.  The rest of the cycle is that of HealthCheck.
HealthExchange ==
    /\ health_pc = "sleep"
    /\ running
    /\ engine_socket = "open"
    /\ cycles < MaxCycles
    /\ \E answer \in EngineAnswers, timing \in ReplyTimings :
         LET n == engine_link.sent + 1
             mine == [check |-> n, reply |-> answer]
             read == engine_recv(engine_link.inbox, mine, timing)
             reply == IF read = <<>> THEN "TIMEOUT" ELSE Head(read).reply
             r == health_cycle(reply, engine_healthy, consecutive_failures, central_socket)
             nf == NumSent(r.sent, "FAULT")
         IN  /\ engine_link' =
                    [inbox |-> engine_unread(engine_link.inbox, mine, timing),
                     sent |-> n,
                     evaluated |-> IF read = <<>> THEN NoEvaluation
                                   ELSE [cycle |-> n, reply_to |-> Head(read).check]]
             /\ engine_healthy' = r.healthy
             /\ consecutive_failures' = r.failures
             /\ central_out' = central_out \o r.sent
             /\ last_cycle' = [reply |-> reply, healthy |-> engine_healthy,
                               failures |-> consecutive_failures, sent |-> r.sent]
             /\ IF reply = "HEALTH_OK"
                THEN /\ run_len' = 0
                     /\ run_healthy' = r.healthy
                     /\ run_faults' = 0
                ELSE /\ run_len' = IF reply \in FailedReplies THEN run_len + 1 ELSE run_len
                     /\ run_healthy' = run_healthy
                     /\ run_faults' = run_faults + nf
    /\ cycles' = cycles + 1
    /\ health_pc' = "sleep"
    /\ UNCHANGED startup_vars
    /\ UNCHANGED <<session_vars, link_vars, listener_pc, tickers, session_hist,
                   pushed, stream, received, carried, decoded, buffer, dispatched,
                   codec_msg, codec_frame, codec_out, weather, wizard>>

NextEngineLink == HealthExchange \/ CentralLost

SpecEngineLink == Init /\ [][NextEngineLink]_vars

\* C36 (as claimed): the reply evaluated in a health cycle is the engine's
\* reply to the HEALTH_CHECK of that cycle; the reply to an earlier check,
\* arriving after that check's cycle timed out, is never taken as the
\* answer to a later check.
C36_ReplyAnswersOwnCheck ==
    engine_link.evaluated.reply_to = engine_link.evaluated.cycle

(***************************************************************************)
(* Hand-over of the controller link from connect_to_central to the          *)
(* listener thread.                                                         *)
(***************************************************************************)
\* run() has connected both links and connect_to_central has sent
\* AUTHENTICATE; the controller answers and then pushes one to MaxFrames
\* valid frames.
InitHandover ==
    /\ running = TRUE
    /\ engine_socket = "open"
    /\ central_socket = "open"
    /\ encryption_key = NoKey
    /\ engine_healthy = TRUE
    /\ consecutive_failures = 0
    /\ current_driver = NoDriver
    /\ charging_active = FALSE
    /\ elapsed = -1
    /\ charge_progress = 0
    /\ last_progress_update = 0
    /\ charging_complete = FALSE
    /\ run_pc = "await_auth"
    /\ health_pc = "idle"
    /\ listener_pc = "idle"
    /\ tickers = [t \in TickerIds |-> DeadTicker]
    /\ central_out = <<Send("AUTHENTICATE", "open")>>
    /\ reports = <<>>
    /\ cycles = 0
    /\ last_cycle = NoCycle
    /\ run_len = 0
    /\ run_healthy = TRUE
    /\ run_faults = 0
    /\ events = 0
    /\ last_msg = "NONE"
    /\ last_driver = NoDriver
    /\ session_no = 0
    /\ engine_attempts = 1
    /\ engine_slept = 0
    /\ engine_result = "True"
    /\ central_attempts = 1
    /\ central_slept = 0
    /\ auth_response = NoResponse
    /\ auth_result = "none"
    /\ console = "None"
    /\ started = <<"engine", "central">>
    /\ CachedCredentials
    /\ pushed \in UNION {[1..k -> [fields : PushedMessages, intact : {TRUE}]] : k \in 1..MaxFrames}
    /\ stream = StreamOf(pushed)
    /\ received = 0
    /\ carried = FALSE
    /\ decoded = 0
    /\ buffer = <<>>
    /\ dispatched = <<>>
    /\ codec_msg = <<>>
    /\ codec_frame = <<>>
    /\ codec_out = NoOutput
    /\ NoSide

NextHandover ==
    \/ AwaitAuth
    \/ StartListener
    \/ StartHealth
    \/ ListenerRecv

SpecHandover == InitHandover /\ [][NextHandover]_vars

\* C37 (as claimed): every complete frame the controller sends after
\* AUTHENTICATED is dispatched by the listener exactly once, also when its
\* bytes arrive in the read that brought the AUTHENTICATED frame: once the
\* listener is running and the whole stream has been read, the dispatched
\* messages are the pushed ones, in order.
C37_NothingLostAtHandover ==
    (listener_pc = "recv" /\ received = Len(stream)) =>
        dispatched = [i \in 1..Len(pushed) |-> pushed[i].fields]

(***************************************************************************)
(* Controller listener: validly framed messages with bad content.           *)
(***************************************************************************)
\* A message of a type the listener has no branch for, a DRIVER_START
\* without the driver id field, and two well-formed events.
UnknownMessage == <<<<"X", "X">>, <<"c">>>>
ShortDriverStart == <<MessageTypes.DRIVER_START, <<"c">>>>
BadContentMessages ==
    {UnknownMessage,
     ShortDriverStart,
     <<MessageTypes.DRIVER_START, <<"c">>, <<"1">>>>,
     <<MessageTypes.DRIVER_STOP, <<"c">>>>}

\* The monitor in its menu with the listener reading, and the controller
\* about to send one to MaxFrames valid frames of these messages.
InitBadContent ==
    /\ running = TRUE
    /\ engine_socket = "open"
    /\ central_socket = "open"
    /\ encryption_key = NoKey
    /\ engine_healthy = TRUE
    /\ consecutive_failures = 0
    /\ current_driver = NoDriver
    /\ charging_active = FALSE
    /\ elapsed = -1
    /\ charge_progress = 0
    /\ last_progress_update = 0
    /\ charging_complete = FALSE
    /\ run_pc = "menu"
    /\ health_pc = "sleep"
    /\ listener_pc = "recv"
    /\ tickers = [t \in TickerIds |-> DeadTicker]
    /\ central_out = <<>>
    /\ reports = <<>>
    /\ cycles = 0
    /\ last_cycle = NoCycle
    /\ run_len = 0
    /\ run_healthy = TRUE
    /\ run_faults = 0
    /\ events = 0
    /\ last_msg = "NONE"
    /\ last_driver = NoDriver
    /\ session_no = 0
    /\ engine_attempts = 0
    /\ engine_slept = 0
    /\ engine_result = "True"
    /\ central_attempts = 0
    /\ central_slept = 0
    /\ auth_response = NoResponse
    /\ auth_result = "True"
    /\ console = "None"
    /\ started = <<>>
    /\ CachedCredentials
    /\ pushed \in UNION {[1..k -> [fields : BadContentMessages, intact : {TRUE}]] :
                            k \in 1..MaxFrames}
    /\ stream = StreamOf(pushed)
    /\ received = 0
    /\ carried = FALSE
    /\ decoded = 0
    /\ buffer = <<>>
    /\ dispatched = <<>>
    /\ codec_msg = <<>>
    /\ codec_frame = <<>>
    /\ codec_out = NoOutput
    /\ NoSide

NextBadContent == ListenerRecv \/ CentralLost

SpecBadContent == InitBadContent /\ [][NextBadContent]_vars

\* C38 (as claimed): a validly framed message of an unknown type, or a
\* DRIVER_START with no driver id field, does not stop the listener, and
\* every message that arrives after it is still dispatched: the listener
\* keeps reading, and once the whole stream has been read every pushed
\* message has been through the dispatch.
C38_SurvivesBadContent ==
    /\ listener_pc = "recv"
    /\ received = Len(stream) => dispatched = [i \in 1..Len(pushed) |-> pushed[i].fields]

(***************************************************************************)
(* Weather service (src/weather/ev_weather.py): check_weather_loop.         *)
(***************************************************************************)
\* polls of the weather loop in one run
MaxPolls == 3

\* Temperatures the weather API reports, in hundredths of a degree.
Temperatures == {-120, -4, 4, 120}
\* What get_temperature_by_coords returns: a temperature, or nothing when
\* the request fails.
Readings == {[ok |-> TRUE, temp |-> t] : t \in Temperatures} \cup {NoReading}
\* Outcome of the POST to the controller: HTTP 200, another status, or an
\* exception (timeout, connection refused).
PostOutcomes == {"200", "500", "ERROR"}

\* temp = round(temp, 1), in tenths of a degree
round1(hundredths) == (hundredths + 5) \div 10

\* Mutant: the alert flag is set whether or not the controller acknowledged.
send_alert_unacknowledged(outcome, flag) == TRUE

\* send_alert: current_alerts[cp_id] = True on a 200 response only.
send_alert(outcome, flag) == IF outcome = "200" THEN TRUE ELSE flag

\* send_clear: current_alerts[cp_id] = False on a 200 response only.
send_clear(outcome, flag) == IF outcome = "200" THEN FALSE ELSE flag

\* The body of `for cp in active_cps` for one charging point: what was read,
\* what was sent, and the flag afterwards.
check_cp(reading, flag, outcome) ==
    IF ~reading.ok
    THEN [attempt |-> [polled |-> TRUE, reading |-> reading, temp |-> 0, alerted |-> flag,
                       kind |-> "none", status |-> "NONE"],
          flag |-> flag]
    ELSE LET temp == round1(reading.temp)
             is_alerted == flag
             kind == IF temp <= 0
                     THEN IF ~is_alerted THEN "alert" ELSE "none"
                     ELSE IF is_alerted THEN "clear" ELSE "none"
         IN  [attempt |-> [polled |-> TRUE, reading |-> reading, temp |-> temp,
                           alerted |-> is_alerted, kind |-> kind,
                           status |-> IF kind = "none" THEN "NONE" ELSE outcome],
              flag |-> CASE kind = "alert" -> send_alert(outcome, flag)
                         [] kind = "clear" -> send_clear(outcome, flag)
                         [] OTHER -> flag]

\* One pass of check_weather_loop: the active charging points are fetched
\* (none when the request fails), and each is checked in turn.
WeatherPoll ==
    /\ weather.polls < MaxPolls
    /\ \E active \in SUBSET CPs :
       \E reading \in [active -> Readings], outcome \in [active -> PostOutcomes] :
         LET r == [cp \in active |->
                      check_cp(reading[cp], weather.current_alerts[cp], outcome[cp])]
         IN  weather' =
               [current_alerts |-> [cp \in CPs |->
                     IF cp \in active THEN r[cp].flag ELSE weather.current_alerts[cp]],
                acked |-> [cp \in CPs |->
                     IF cp \in active /\ r[cp].attempt.status = "200"
                     THEN Append(weather.acked[cp], r[cp].attempt.kind)
                     ELSE weather.acked[cp]],
                polls |-> weather.polls + 1,
                last |-> [cp \in CPs |->
                     IF cp \in active THEN r[cp].attempt ELSE NoAttempt]]
    /\ UNCHANGED <<health_vars, session_vars, link_vars, thread_vars, health_hist,
                   session_hist, startup_vars, pushed, stream, received, carried,
                   decoded, buffer, dispatched, codec_msg, codec_frame, codec_out,
                   engine_link, wizard>>

SpecWeather == Init /\ [][WeatherPoll]_vars

MaxMessages == 6

Blank == " "
DefaultLat == <<"40.5">>
DefaultLon == <<"-3.1">>
DefaultPrice == <<"0.30">>

\* Lines the browser sends.
Lines == {<<>>, <<Blank>>, <<"1">>, <<"1", Blank>>, <<"2">>, <<"CP-010">>, <<"x">>, <<"41.2">>}
\* Ids for which int(cp_id.split('-')[1]) succeeds.
WellFormedIds == {<<"CP-010">>}
\* Prices for which float(price) succeeds.
Numbers == {<<"1">>, <<"2">>, <<"41.2">>, DefaultPrice}

RECURSIVE lstrip(_)
lstrip(s) == IF s # <<>> /\ Head(s) = Blank THEN lstrip(Tail(s)) ELSE s

RECURSIVE rstrip(_)
rstrip(s) == IF s # <<>> /\ s[Len(s)] = Blank THEN rstrip(SubSeq(s, 1, Len(s) - 1)) ELSE s

\* message.strip()
strip(s) == rstrip(lstrip(s))

\* command or default
or_default(command, default) == IF command = <<>> THEN default ELSE command

\* execute_create_cp: every failure is caught and reported; the operation
\* can succeed only when the id and the price parse.
create_outcomes(temp_data) ==
    IF temp_data.cpId \in WellFormedIds /\ temp_data.price \in Numbers
    THEN {"created", "failed"}
    ELSE {"failed"}

\* handle_menu_command
handle_menu_command(w, command) ==
    CASE command = <<"1">> -> [state |-> "CREATE_ID", temp_data |-> NoTempData, result |-> "NONE"]
      [] command = <<"2">> -> [state |-> "DELETE_ID", temp_data |-> w.temp_data, result |-> "NONE"]
      [] OTHER -> [state |-> w.state, temp_data |-> w.temp_data, result |-> "NONE"]

\* temp_data as execute_create_cp reads it
create_data(w, command) == [w.temp_data EXCEPT !.price = or_default(command, DefaultPrice)]

\* process_command; `outcome` is what the create operation came to.
process_command(w, command, outcome) ==
    CASE w.state = "MENU" -> handle_menu_command(w, command)
      [] w.state = "CREATE_ID" ->
            [state |-> "CREATE_LAT", temp_data |-> [w.temp_data EXCEPT !.cpId = command],
             result |-> "NONE"]
      [] w.state = "CREATE_LAT" ->
            [state |-> "CREATE_LON",
             temp_data |-> [w.temp_data EXCEPT !.lat = or_default(command, DefaultLat)],
             result |-> "NONE"]
      [] w.state = "CREATE_LON" ->
            [state |-> "CREATE_PRICE",
             temp_data |-> [w.temp_data EXCEPT !.lon = or_default(command, DefaultLon)],
             result |-> "NONE"]
      [] w.state = "CREATE_PRICE" ->
            [state |-> "MENU", temp_data |-> create_data(w, command), result |-> outcome]
      [] w.state = "DELETE_ID" ->
            [state |-> "MENU", temp_data |-> w.temp_data, result |-> "deleted"]

\* handle_client, one message of `async for message in websocket`.
WizardMessage ==
    /\ wizard.messages < MaxMessages
    /\ \E message \in Lines :
         LET command == strip(message)
         IN  \E outcome \in IF wizard.state = "CREATE_PRICE"
                            THEN create_outcomes(create_data(wizard, command))
                            ELSE {"NONE"} :
               LET p == IF command # <<>>
                        THEN process_command(wizard, command, outcome)
                        ELSE [state |-> wizard.state, temp_data |-> wizard.temp_data,
                              result |-> "NONE"]
               IN  wizard' = [state |-> p.state, temp_data |-> p.temp_data,
                              messages |-> wizard.messages + 1,
                              last |-> [message |-> message, state |-> wizard.state,
                                        result |-> p.result]]
    /\ UNCHANGED <<health_vars, session_vars, link_vars, thread_vars, health_hist,
                   session_hist, startup_vars, pushed, stream, received, carried,
                   decoded, buffer, dispatched, codec_msg, codec_frame, codec_out,
                   engine_link, weather>>

SpecWizard == Init /\ [][WizardMessage]_vars

\* C40: after an empty line is submitted at the latitude, longitude or
\* price prompt the wizard holds the advertised default for that prompt and
\* has moved to the next step (the price prompt runs the create operation
\* and ends in MENU).
C40_EmptyLineSelectsDefault ==
    strip(wizard.last.message) = <<>> =>
        /\ wizard.last.state = "CREATE_LAT" =>
              wizard.state = "CREATE_LON" /\ wizard.temp_data.lat = DefaultLat
        /\ wizard.last.state = "CREATE_LON" =>
              wizard.state = "CREATE_PRICE" /\ wizard.temp_data.lon = DefaultLon
        /\ wizard.last.state = "CREATE_PRICE" =>
              wizard.state = "MENU" /\ wizard.temp_data.price = DefaultPrice

====
